---- MODULE Spec2Model ----
(***************************************************************************)
(* Model of the static code-quality analysis engine of terminus:           *)
(*   tools/analysis/code_reviewer.py  (CodeAnalyzer, suggest_refactor)     *)
(*   tools/analysis/code_review.py    (review_code, _review_directory,     *)
(*                                     find_complex_functions,             *)
(*                                     find_code_duplicates)               *)
(* A file's content is represented by the list content.split('\n') (never  *)
(* empty), Python indices are kept 0-based inside the operators and        *)
(* converted to 1-based sequence positions at the point of access.         *)
(***************************************************************************)
EXTENDS Integers, Sequences, FiniteSets, TLC

VARIABLES
    store,              \* the list and dict objects created so far
    analyzer,           \* the CodeAnalyzer of the running tool: refs of self.issues, self.metrics
    pc,                 \* "idle" | "loop" | "done"
    tool,               \* the tool that runs
    scan,               \* history: what the tool was called on (mode, root, tree)
    files,              \* code_files / files_to_analyze, after filtering and capping
    found,              \* number of files the scan found, after filtering, before capping
    truncated_message,  \* the count printed by the truncation notice, None without notice
    idx,                \* number of files of `files` already analyzed
    all_issues,         \* _review_directory: all_issues
    all_metrics,        \* _review_directory: all_metrics
    file_summaries,     \* _review_directory: file_summaries
    collected,          \* complex_functions / duplicates
    calls,              \* history: every analyze_file call with what it returned
    report,             \* what the tool returned
    content,            \* SpecDup: the lines of the file handed to the detector
    dup_issues,         \* SpecDup: issues appended by _detect_code_duplication
    dup_again,          \* SpecDup: issues appended by a second run on the same content
    dup_pc,             \* SpecDup: "loaded" | "scanned" | "rescanned"
    file_metrics,       \* SpecMetrics: <<>>, then <<the returned file metrics>>
    source,             \* SpecFunc: the module handed to analyze_file: [lines, tree]
    ast_issues,         \* SpecFunc: the issues analyze_file returned
    ast_metrics,        \* SpecFunc: function_metrics of the returned dict
    ast_pc,             \* SpecFunc: "parsed" | "analyzed"
    index_args,         \* SpecIndex: loc, complexity, cognitive handed to the index
    index,              \* SpecIndex: <<>>, then <<the returned index>>
    analyzers,          \* SpecAsync: the CodeAnalyzer objects created by the tasks
    tasks,              \* SpecAsync: per task its position, tool, file, analyzer, result
    running,            \* SpecAsync: the task the event loop is running, 0 when none
    data,               \* SpecState: StateManager.data, the StateData object
    state_file,         \* SpecState: what _save_state wrote last, <<>> before the first save
    now,                \* SpecState: the reading of the clock, one tick per call that reads it
    sm_history,         \* SpecState: history: the last call, data before it, every entry added
    budget              \* SpecState: the calls the run may still make

runVars ==
    <<analyzer, pc, tool, scan, files, found, truncated_message, idx,
      all_issues, all_metrics, file_summaries, collected, calls, report>>
toolVars == <<store, runVars>>
dupVars == <<content, dup_issues, dup_again, dup_pc, file_metrics>>
asyncVars == <<analyzers, tasks, running>>
funcVars == <<source, ast_issues, ast_metrics, ast_pc, index_args, index>>
stateVars == <<data, state_file, now, sm_history, budget>>
vars == <<toolVars, dupVars, asyncVars, funcVars, stateVars>>

(***************************************************************************)
(* Bounds of the model                                                     *)
(***************************************************************************)
MaxLines == 11      \* longest file drawn from DupAlphabet
MaxPad == 2         \* longest prefix / suffix, and gap - 1, of a two-block file
MaxNest == 2        \* deepest chain of compound statements in a generated function
MaxIndent == MaxNest + 3    \* deepest indentation of a generated line
MaxFuncLines == 101 \* most statements in the body of a generated function
MaxIfs == 16        \* most sequential if statements of a generated function
MaxElifs == 5       \* most elif clauses of a generated if statement
MaxMetricLines == 5 \* longest file handed to the file metrics
MaxTagOps == 5      \* most tag calls of a run with few entries
MaxFewTagOps == 2   \* most tag calls of a run with many entries
MaxFewAdds == 3     \* most add_context_entry calls of a run with many tag calls
MaxSomeAdds == 12   \* most add_context_entry calls of a run that fills the context lists
MaxAdds == 52       \* most add_context_entry calls of a run that fills the command history
MaxLoc == 120       \* most lines of code handed to the maintainability index
MaxComplexity == 40 \* largest complexity handed to the maintainability index

(***************************************************************************)
(* Small helpers                                                           *)
(***************************************************************************)
None == -1

Min(a, b) == IF a <= b THEN a ELSE b

(***************************************************************************)
(* Lines of text.  str.strip() and str.startswith('#') are given by their  *)
(* effect on the vocabulary of lines the model draws from.                 *)
(***************************************************************************)
\* the names of the functions and the parameter lists of the generated code
DefNames == {"handler", "helper", "m", "Handle"}

ArgLists ==
    {<<>>, <<"request">>, <<"self">>, <<"self", "a", "b", "c", "d">>,
     <<"self", "a", "b", "c", "d", "e">>, <<"a", "b", "c", "d", "e">>,
     <<"a", "b", "c", "d", "e", "f">>}

RECURSIVE Join(_)
Join(args) ==
    IF args = <<>> THEN ""
    ELSE IF Len(args) = 1 THEN args[1]
    ELSE args[1] \o ", " \o Join(Tail(args))

DefText(keyword, name, args) == keyword \o name \o "(" \o Join(args) \o "):"

Literals == {0, 1, 2, 42}

\* the statements of the generated code, without their indentation
Texts ==
    {"pass", "if request:", "elif request:", "if request and ready:",
     "if request and ready and armed:", "while request:",
     "for item in request:", "async for item in request:", "with request:",
     "async with request:", "try:", "except Error:", "class Service:",
     "value = compute(request)", "count = count + 1",
     "return request if ready else fallback", "done()", "# step"}
    \cup {"limit = " \o ToString(v) : v \in Literals}
    \cup {"limit = -" \o ToString(v) : v \in Literals}
    \cup {DefText(k, n, a) : k \in {"def ", "async def "}, n \in DefNames, a \in ArgLists}

\* 4 * depth spaces
RECURSIVE Pad(_)
Pad(depth) == IF depth = 0 THEN "" ELSE "    " \o Pad(depth - 1)

Src(depth, text) == Pad(depth) \o text

\* the indented lines of the generated code, whitespace-only lines included
IndentedLines == {Src(d, t) : d \in 1..MaxIndent, t \in Texts \cup {""}}

Stripped ==
    [l \in IndentedLines |->
        CHOOSE t \in Texts \cup {""} : \E d \in 1..MaxIndent : Src(d, t) = l]

Strip(l) ==
    CASE l = "   " -> ""
      [] l = "    # note" -> "# note"
      [] l = "    x = 1" -> "x = 1"
      [] l \in IndentedLines -> Stripped[l]
      [] OTHER -> l

\* len(line) - len(line.lstrip()); no line of the model ends with white space
Indent(l) == Len(l) - Len(Strip(l))

StartsWithHash(s) == s \in {"# note", "# end", "# step"}

\* `not line.strip() or line.strip().startswith('#')`
IsTrivialLine(l) == Strip(l) = "" \/ StartsWithHash(Strip(l))

(***************************************************************************)
(* CodeIssue                                                               *)
(***************************************************************************)
Severities == {"critical", "major", "minor", "info"}

\* message: the text of the f-string and the number formatted into it
Message(text, value) == [text |-> text, value |-> value]

CodeIssue(sev, typ, path, line, fname, message, metric, ranges) ==
    [severity |-> sev, type |-> typ, file_path |-> path, line_number |-> line,
     function_name |-> fname, message |-> message, metric_value |-> metric,
     ranges |-> ranges]

(***************************************************************************)
(* Duplication detector                                                    *)
(***************************************************************************)
min_duplicate_lines == 5

\* lines[i:i + min_duplicate_lines], i 0-based; the slice is clipped at the end
Window(lines, i) ==
    SubSeq(lines, i + 1, Min(i + min_duplicate_lines, Len(lines)))

\* all(not line.strip() or line.strip().startswith('#') for line in sequence)
IsTrivialWindow(w) == \A k \in 1..Len(w) : IsTrivialLine(w[k])

\* the inner loop: for j in range(from, len(lines) - min_duplicate_lines),
\* the first j whose window equals `sequence`, None when the loop runs out
FirstDuplicate(lines, sequence, j) ==
    LET equal == {k \in j..(Len(lines) - min_duplicate_lines - 1) :
                     Window(lines, k) = sequence}
    IN  IF equal = {} THEN None
        ELSE CHOOSE k \in equal : \A other \in equal : k <= other

DuplicationIssue(path, i, j) ==
    CodeIssue("major", "duplication", path, i + 1, "",
              Message("Code duplication detected", None), None,
              <<i + 1, i + min_duplicate_lines, j + 1, j + min_duplicate_lines>>)

\* variant: after a hit the outer loop goes on behind the reported window,
\* so that a duplicated block is reported once
RECURSIVE DuplicationFromSkipping(_, _, _)
DuplicationFromSkipping(lines, path, i) ==
    IF i >= Len(lines) - min_duplicate_lines THEN <<>>
    ELSE LET sequence == Window(lines, i)
             j == FirstDuplicate(lines, sequence, i + min_duplicate_lines)
         IN  IF IsTrivialWindow(sequence) \/ j = None
             THEN DuplicationFromSkipping(lines, path, i + 1)
             ELSE <<DuplicationIssue(path, i, j)>>
                  \o DuplicationFromSkipping(lines, path, i + min_duplicate_lines)

\* variant: every issue is inserted at the front of the list
RECURSIVE DuplicationFromPrepending(_, _, _)
DuplicationFromPrepending(lines, path, i) ==
    IF i >= Len(lines) - min_duplicate_lines THEN <<>>
    ELSE LET sequence == Window(lines, i)
             j == FirstDuplicate(lines, sequence, i + min_duplicate_lines)
             here == IF IsTrivialWindow(sequence) \/ j = None THEN <<>>
                     ELSE <<DuplicationIssue(path, i, j)>>
         IN  DuplicationFromPrepending(lines, path, i + 1) \o here

\* the outer loop from index i on: for i in range(len(lines) - min_duplicate_lines)
DuplicationFrom(lines, path, i) ==
    LET Duplicate(k) == FirstDuplicate(lines, Window(lines, k), k + min_duplicate_lines)
        reported == SelectSeq([k \in 1..(Len(lines) - min_duplicate_lines - i) |-> i + k - 1],
                              LAMBDA k : ~IsTrivialWindow(Window(lines, k))
                                         /\ Duplicate(k) # None)
    IN  IF i >= Len(lines) - min_duplicate_lines THEN <<>>
        ELSE [n \in 1..Len(reported) |->
                 DuplicationIssue(path, reported[n], Duplicate(reported[n]))]

\* the issues _detect_code_duplication appends to self.issues
_detect_code_duplication(lines, path) == DuplicationFrom(lines, path, 0)

(***************************************************************************)
(* Issue detector: thresholds and per-function checks.  A check is the     *)
(* sequence of issues it appends to self.issues.                           *)
(***************************************************************************)
thresholds ==
    [max_function_length |-> 50, max_complexity |-> 10,
     max_cognitive_complexity |-> 15, max_parameters |-> 5,
     max_nesting |-> 4, min_maintainability |-> 20]

\* variant: a length of exactly twice the threshold is already critical
_check_function_length_from_double(func_name, length, line_num, path) ==
    IF length > thresholds.max_function_length
    THEN <<CodeIssue(IF length >= thresholds.max_function_length * 2
                     THEN "critical" ELSE "major",
                     "length", path, line_num, func_name,
                     Message("is too long", length), length, <<>>)>>
    ELSE <<>>

_check_function_length(func_name, length, line_num, path) ==
    IF length > thresholds.max_function_length
    THEN <<CodeIssue(IF length > thresholds.max_function_length * 2
                     THEN "critical" ELSE "major",
                     "length", path, line_num, func_name,
                     Message("is too long", length), length, <<>>)>>
    ELSE <<>>

\* variant: a complexity of exactly 1.5 times the threshold is already critical
_check_complexity_from_half_more(func_name, complexity, line_num, path) ==
    IF complexity > thresholds.max_complexity
    THEN <<CodeIssue(IF 2 * complexity >= 3 * thresholds.max_complexity
                     THEN "critical" ELSE "major",
                     "complexity", path, line_num, func_name,
                     Message("has high cyclomatic complexity", complexity),
                     complexity, <<>>)>>
    ELSE <<>>

\* complexity > max_complexity * 1.5 is compared as 2 * complexity > 3 * max
_check_complexity(func_name, complexity, line_num, path) ==
    IF complexity > thresholds.max_complexity
    THEN <<CodeIssue(IF 2 * complexity > 3 * thresholds.max_complexity
                     THEN "critical" ELSE "major",
                     "complexity", path, line_num, func_name,
                     Message("has high cyclomatic complexity", complexity),
                     complexity, <<>>)>>
    ELSE <<>>

_check_cognitive_complexity(func_name, cognitive, line_num, path) ==
    IF cognitive > thresholds.max_cognitive_complexity
    THEN <<CodeIssue("major", "complexity", path, line_num, func_name,
                     Message("has high cognitive complexity", cognitive),
                     cognitive, <<>>)>>
    ELSE <<>>

_check_parameter_count(func_name, param_count, line_num, path) ==
    IF param_count > thresholds.max_parameters
    THEN <<CodeIssue("major", "smell", path, line_num, func_name,
                     Message("has too many parameters", param_count),
                     param_count, <<>>)>>
    ELSE <<>>

_check_nesting_depth(func_name, depth, line_num, path) ==
    IF depth > thresholds.max_nesting
    THEN <<CodeIssue("major", "complexity", path, line_num, func_name,
                     Message("has deep nesting", depth), depth, <<>>)>>
    ELSE <<>>

\* A function name is the record [text, length, snake, dunder]: its text, its
\* len(), whether it matches ^[a-z_][a-z0-9_]*$ and whether it starts with '__'
NamingIssue(name, issue, line_num, path) ==
    CodeIssue("minor", "naming", path, line_num, name.text,
              Message(issue, None), None, <<>>)

_check_function_naming(name, is_py, line_num, path) ==
    (IF is_py /\ ~name.snake /\ name.text # "__init__" /\ ~name.dunder
     THEN <<NamingIssue(name, "Use snake_case for Python function names",
                        line_num, path)>>
     ELSE <<>>)
    \o (IF name.length <= 2 /\ name.text \notin {"go", "do", "is", "as"}
        THEN <<NamingIssue(name, "Function name is too short and not descriptive",
                           line_num, path)>>
        ELSE <<>>)
    \o (IF name.length > 50
        THEN <<NamingIssue(name, "Function name is too long", line_num, path)>>
        ELSE <<>>)

Abs(n) == IF n < 0 THEN -n ELSE n

\* one issue per numeric constant met by ast.walk(func_node); constants is the
\* sequence of <<value, lineno>> in walk order; no metric_value is passed
MagicNumberIssues(constants, func_name, path) ==
    LET magic == SelectSeq(constants,
                           LAMBDA c : c[1] \notin {0, 1, -1} /\ Abs(c[1]) > 1)
    IN  [k \in 1..Len(magic) |->
            CodeIssue("minor", "smell", path, magic[k][2], func_name,
                      Message("Magic number found", magic[k][1]), None, <<>>)]

_detect_code_smells(func, path) ==
    (IF func.only_pass
     THEN <<CodeIssue("minor", "smell", path, func.lineno, func.name.text,
                      Message("is empty", None), None, <<>>)>>
     ELSE <<>>)
    \o MagicNumberIssues(func.constants, func.name.text, path)

\* CodeMetrics of a function; the maintainability index is kept as the value
\* the descriptor carries for it
CodeMetrics(func) ==
    [lines_of_code |-> func.loc, cyclomatic_complexity |-> func.complexity,
     cognitive_complexity |-> func.cognitive, parameter_count |-> func.params,
     nesting_depth |-> func.nesting, maintainability_index |-> func.mi]

\* the issues _analyze_python_function appends, in order; ends_py is
\* file_path.endswith('.py'), which the naming check tests
PythonFunctionIssues(func, path, ends_py) ==
    _check_function_length(func.name.text, func.loc, func.lineno, path)
    \o _check_complexity(func.name.text, func.complexity, func.lineno, path)
    \o _check_cognitive_complexity(func.name.text, func.cognitive, func.lineno, path)
    \o _check_parameter_count(func.name.text, func.params, func.lineno, path)
    \o _check_nesting_depth(func.name.text, func.nesting, func.lineno, path)
    \o _check_function_naming(func.name, ends_py, func.lineno, path)
    \o _detect_code_smells(func, path)

\* variant: self.metrics.setdefault(func_name, metrics), the first entry stays
DictSetDefault(d, key, value) ==
    [k \in DOMAIN d \cup {key} |-> IF k \in DOMAIN d THEN d[k] ELSE value]

\* self.metrics[func_name] = metrics
DictSet(d, key, value) ==
    [k \in DOMAIN d \cup {key} |-> IF k = key THEN value ELSE d[k]]

EmptyDict == [k \in {} |-> 0]

\* An accumulator is the pair self.issues / self.metrics seen as values:
\* [issues, metrics, raised]; raised tells that an exception left the loop.
\* for func in functions: self._analyze_python_function(func, content, path)
RECURSIVE AnalyzeFunctions(_, _, _, _)
AnalyzeFunctions(acc, funcs, path, ends_py) ==
    IF funcs = <<>> THEN acc
    ELSE LET func == Head(funcs) IN
         IF func.raises THEN [acc EXCEPT !.raised = TRUE]
         ELSE AnalyzeFunctions(
                [issues |-> acc.issues \o PythonFunctionIssues(func, path, ends_py),
                 metrics |-> DictSet(acc.metrics, func.name.text, CodeMetrics(func)),
                 raised |-> FALSE],
                Tail(funcs), path, ends_py)

\* one major smell issue per `from m import *`, at the import's line
RECURSIVE WildcardIssues(_, _)
WildcardIssues(import_lines, path) ==
    IF import_lines = <<>> THEN <<>>
    ELSE <<CodeIssue("major", "smell", path, Head(import_lines), "",
                     Message("Wildcard import found", None), None, <<>>)>>
         \o WildcardIssues(Tail(import_lines), path)

_analyze_python_imports(f) == WildcardIssues(f.wildcard_imports, f.path)

SyntaxIssue(f) ==
    CodeIssue("critical", "syntax", f.path,
              IF f.syntax_lineno = None THEN 1 ELSE f.syntax_lineno,
              "", Message("Syntax error", None), None, <<>>)

\* variant: no except SyntaxError clause, the error leaves the method
_analyze_python_file_uncaught(acc, f) ==
    IF ~f.syntax_ok
    THEN [acc EXCEPT !.raised = TRUE]
    ELSE LET AfterFunctions(a) ==
                 IF a.raised THEN a
                 ELSE [a EXCEPT !.issues =
                          @ \o _detect_code_duplication(f.lines, f.path)
                            \o _analyze_python_imports(f)]
         IN  AfterFunctions(AnalyzeFunctions(acc, f.funcs, f.path, f.suffix = ".py"))

\* ast.parse raising SyntaxError is caught here and becomes one issue; any
\* other exception leaves the method
_analyze_python_file(acc, f) ==
    IF ~f.syntax_ok
    THEN [acc EXCEPT !.issues = @ \o <<SyntaxIssue(f)>>]
    ELSE LET AfterFunctions(a) ==
                 IF a.raised THEN a
                 ELSE [a EXCEPT !.issues =
                          @ \o _detect_code_duplication(f.lines, f.path)
                            \o _analyze_python_imports(f)]
         IN  AfterFunctions(AnalyzeFunctions(acc, f.funcs, f.path, f.suffix = ".py"))

\* f.js_funcs: one [name, start_idx, func_length, complexity] per line the
\* function pattern matches and whose brace scan collected lines
RECURSIVE JsFunctionIssues(_, _)
JsFunctionIssues(js_funcs, path) ==
    IF js_funcs = <<>> THEN <<>>
    ELSE LET jf == Head(js_funcs) IN
         _check_function_length(jf.name, jf.func_length, jf.start_idx + 1, path)
         \o (IF jf.complexity > thresholds.max_complexity
             THEN _check_complexity(jf.name, jf.complexity, jf.start_idx + 1, path)
             ELSE <<>>)
         \o JsFunctionIssues(Tail(js_funcs), path)

\* variant: the block analysis also stores metrics under the function's name
_analyze_javascript_file_with_metrics(acc, f) ==
    [acc EXCEPT !.issues = @ \o JsFunctionIssues(f.js_funcs, f.path)
                             \o _detect_code_duplication(f.lines, f.path),
                !.metrics =
                    [name \in DOMAIN @ \cup {f.js_funcs[k].name : k \in 1..Len(f.js_funcs)} |->
                        IF \E k \in 1..Len(f.js_funcs) : f.js_funcs[k].name = name
                        THEN LET k == CHOOSE j \in 1..Len(f.js_funcs) :
                                          f.js_funcs[j].name = name
                             IN  CodeMetrics([loc |-> f.js_funcs[k].func_length,
                                              complexity |-> f.js_funcs[k].complexity,
                                              cognitive |-> 0, params |-> 0,
                                              nesting |-> 0, mi |-> 0])
                        ELSE @[name]]]

_analyze_javascript_file(acc, f) ==
    [acc EXCEPT !.issues = @ \o JsFunctionIssues(f.js_funcs, f.path)
                             \o _detect_code_duplication(f.lines, f.path)]

\* variant: code_lines counts every non-blank line, comment lines included
_calculate_file_metrics_with_comments_as_code(lines) ==
    LET code == {k \in 1..Len(lines) : Strip(lines[k]) # ""}
        comment == {k \in 1..Len(lines) : StartsWithHash(Strip(lines[k]))}
    IN  [total_lines |-> Len(lines),
         code_lines |-> Cardinality(code),
         comment_lines |-> Cardinality(comment),
         blank_lines |-> Len(lines) - Cardinality(code) - Cardinality(comment)]

_calculate_file_metrics(lines) ==
    LET code == {k \in 1..Len(lines) :
                    Strip(lines[k]) # "" /\ ~StartsWithHash(Strip(lines[k]))}
        comment == {k \in 1..Len(lines) : StartsWithHash(Strip(lines[k]))}
    IN  [total_lines |-> Len(lines),
         code_lines |-> Cardinality(code),
         comment_lines |-> Cardinality(comment),
         blank_lines |-> Len(lines) - Cardinality(code) - Cardinality(comment)]

\* groups = defaultdict(int); for issue in issues: groups[issue.severity] += 1
GroupBySeverity(groups, issues) ==
    [sev \in DOMAIN groups \cup {issues[k].severity : k \in 1..Len(issues)} |->
        (IF sev \in DOMAIN groups THEN groups[sev] ELSE 0)
        + Cardinality({k \in 1..Len(issues) : issues[k].severity = sev})]

\* variant: groups[issue.severity] = 1 in place of += 1
_group_issues_by_severity_assigning(issues) ==
    [sev \in {issues[k].severity : k \in 1..Len(issues)} |-> 1]

_group_issues_by_severity(issues) == GroupBySeverity(EmptyDict, issues)

(***************************************************************************)
(* Objects.  Lists and dicts live in a store and are named by reference, so *)
(* that a list handed to a caller and a list the analyzer keeps writing to  *)
(* can be told apart.  store = [lists, dicts]; a reference is a position.   *)
(***************************************************************************)
EmptyStore == [lists |-> <<>>, dicts |-> <<>>]

\* CodeAnalyzer.__init__: self.issues = []; self.metrics = {}
CodeAnalyzer__init__(st) ==
    LET lists == Append(st.lists, <<>>)
        dicts == Append(st.dicts, EmptyDict)
    IN  [store |-> [lists |-> lists, dicts |-> dicts],
         self |-> [issues |-> Len(lists), metrics |-> Len(dicts)]]

\* variant: self.issues.clear(); self.metrics.clear(), the objects are kept
ResetAccumulatorsInPlace(st, self) ==
    [store |-> [lists |-> [st.lists EXCEPT ![self.issues] = <<>>],
                dicts |-> [st.dicts EXCEPT ![self.metrics] = EmptyDict]],
     self |-> self]

\* analyze_file, first two statements: self.issues = []; self.metrics = {}
ResetAccumulators(st, self) ==
    LET lists == Append(st.lists, <<>>)
        dicts == Append(st.dicts, EmptyDict)
    IN  [store |-> [lists |-> lists, dicts |-> dicts],
         self |-> [issues |-> Len(lists), metrics |-> Len(dicts)]]

NoFileMetrics ==
    [total_lines |-> 0, code_lines |-> 0, comment_lines |-> 0, blank_lines |-> 0]

SuccessKeys ==
    {"file_metrics", "function_metrics", "issues_by_severity", "suggestions_count"}

\* variant: return self.issues, {"error": ...}
ErrorResultKeepingIssues(st, self) ==
    [store |-> st,
     ret |-> [issues |-> self.issues,
              metrics |-> [keys |-> {"error"},
                           file_metrics |-> NoFileMetrics,
                           function_metrics |-> 0,
                           issues_by_severity |-> EmptyDict,
                           suggestions_count |-> 0]]]

\* return [], {"error": ...}: a new empty list and a dict with the one key
ErrorResult(st, self) ==
    LET lists == Append(st.lists, <<>>)
    IN  [store |-> [st EXCEPT !.lists = lists],
         ret |-> [issues |-> Len(lists),
                  metrics |-> [keys |-> {"error"},
                               file_metrics |-> NoFileMetrics,
                               function_metrics |-> 0,
                               issues_by_severity |-> EmptyDict,
                               suggestions_count |-> 0]]]

\* return self.issues, {"file_metrics": ..., "function_metrics": self.metrics,
\*                      "issues_by_severity": ..., "suggestions_count": ...}
SuccessResult(st, self, f) ==
    [store |-> st,
     ret |-> [issues |-> self.issues,
              metrics |-> [keys |-> SuccessKeys,
                           file_metrics |-> _calculate_file_metrics(f.lines),
                           function_metrics |-> self.metrics,
                           issues_by_severity |->
                               _group_issues_by_severity(st.lists[self.issues]),
                           suggestions_count |-> Len(st.lists[self.issues])]]]

\* path.suffix.lower()
Lower(suffix) ==
    CASE suffix = ".PY" -> ".py"
      [] suffix = ".JS" -> ".js"
      [] OTHER -> suffix

JsSuffixes == {".js", ".ts", ".jsx", ".tsx"}

\* the language analysis, appending through self.issues and self.metrics
AnalyzeInto(st, self, f) ==
    LET acc0 == [issues |-> st.lists[self.issues],
                 metrics |-> st.dicts[self.metrics], raised |-> FALSE]
        Stored(acc) ==
            [store |-> [lists |-> [st.lists EXCEPT ![self.issues] = acc.issues],
                        dicts |-> [st.dicts EXCEPT ![self.metrics] = acc.metrics]],
             raised |-> acc.raised]
    IN  Stored(IF Lower(f.suffix) = ".py"
               THEN _analyze_python_file(acc0, f)
               ELSE _analyze_javascript_file(acc0, f))

\* the try block of analyze_file with its except clause: a missing path, a
\* read_text failure (directory, permission, decoding), an unsupported
\* suffix and an exception during the analysis all give the error result
TryAnalyze(st, self, f) ==
    IF ~f.exists THEN ErrorResult(st, self)
    ELSE IF f.is_dir \/ ~f.readable THEN ErrorResult(st, self)
    ELSE IF Lower(f.suffix) \in {".py"} \cup JsSuffixes
         THEN LET Outcome(r) == IF r.raised THEN ErrorResult(r.store, self)
                                ELSE SuccessResult(r.store, self, f)
              IN  Outcome(AnalyzeInto(st, self, f))
    ELSE ErrorResult(st, self)

\* CodeAnalyzer.analyze_file: [store, self, ret], ret = (issues, metrics)
analyze_file(st, self, f) ==
    LET Returned(r, b) == [store |-> b.store, self |-> r.self, ret |-> b.ret]
        Body(r) == Returned(r, TryAnalyze(r.store, r.self, f))
    IN  Body(ResetAccumulators(st, self))

(***************************************************************************)
(* File contents the model draws from                                      *)
(***************************************************************************)
DupAlphabet == {"", "# note", "x = 1"}

BlockLines ==
    <<"total = 0", "count = len(values)", "total = sum(values)",
      "mean = total / count", "print(mean)", "log(total)">>

PrefixLines == <<"import os", "import sys", "values = load()", "check(values)">>

GapLines == <<"values = reload()", "reset()", "check(values)", "flush()", "sync()">>

SuffixLines == <<"done()", "# end", "close()", "exit()">>

\* p lines, a 6-line block, g lines, the same block, s lines and, when the
\* text ends with a newline, the empty last element split('\n') produces
TwoBlockFile(p, g, s, nl) ==
    SubSeq(PrefixLines, 1, p) \o BlockLines \o SubSeq(GapLines, 1, g)
        \o BlockLines \o SubSeq(SuffixLines, 1, s)
        \o (IF nl THEN <<"">> ELSE <<>>)

TwoBlockFiles ==
    {TwoBlockFile(p, g, s, nl) :
        p \in 0..MaxPad, g \in 1..(MaxPad + 1), s \in 0..MaxPad, nl \in BOOLEAN}

AlphabetFiles == UNION {[1..n -> DupAlphabet] : n \in 1..MaxLines}

(***************************************************************************)
(* Maintainability index.  The floats of the code are held in fixed point: *)
(* a quantity q stands for q / Milli, and the returned index, which the    *)
(* code rounds to 2 decimals, is held in hundredths (100.0 is 10000).      *)
(* x ** 0.5 is the integer square root of the scaled value; x ** 0.23 is   *)
(* the product of the repeated square roots x^(1/8), x^(1/16), x^(1/32),   *)
(* x^(1/128), x^(1/512), x^(1/1024) and x^(1/2048), whose exponents add up *)
(* to 0.22998; the result is within 0.1 of the float the code computes.    *)
(***************************************************************************)
Milli == 1000

\* the largest r in lo..hi with r * r <= n, found by bisection
RECURSIVE SqrtBetween(_, _, _)
SqrtBetween(n, lo, hi) ==
    IF lo >= hi THEN lo
    ELSE LET mid == (lo + hi + 1) \div 2 IN
         IF mid * mid <= n THEN SqrtBetween(n, mid, hi)
         ELSE SqrtBetween(n, lo, mid - 1)

\* q ** 0.5 in fixed point
Sqrt(q) == SqrtBetween(q * Milli, 0, 46340)

Mul(p, q) == (p * q) \div Milli

\* the k-th repeated square root of q: q ** (1 / 2^k)
RECURSIVE Root(_, _)
Root(q, k) == IF k = 0 THEN q ELSE Sqrt(Root(q, k - 1))

\* volume ** 0.23
Pow023(q) ==
    LET Chain(r8) ==
            LET r16 == Sqrt(r8)
                r32 == Sqrt(r16)
                r128 == Sqrt(Sqrt(r32))
                r512 == Sqrt(Sqrt(r128))
                r1024 == Sqrt(r512)
                r2048 == Sqrt(r1024)
            IN  Mul(Mul(Mul(Mul(Mul(Mul(r8, r16), r32), r128), r512), r1024), r2048)
    IN  Chain(Root(q, 3))

\* variant: no max(0, ...), the raw value is rounded and returned
_calculate_maintainability_index_unclamped(loc, complexity, cognitive) ==
    IF loc = 0 THEN 10000
    ELSE LET volume == loc * 2400
             raw == 171 * Milli - (52 * Pow023(volume)) \div 10
                    - 230 * complexity - (162 * Sqrt(loc * Milli)) \div 10
         IN  IF raw >= 0 THEN (20 * raw + 171) \div 342
             ELSE -((20 * (-raw) + 171) \div 342)

\* max(0, (171 - 5.2 * volume ** 0.23 - 0.23 * complexity
\*         - 16.2 * loc ** 0.5) * 100 / 171), rounded to 2 decimals
_calculate_maintainability_index(loc, complexity, cognitive) ==
    IF loc = 0 THEN 10000
    ELSE LET volume == loc * 2400
             raw == 171 * Milli - (52 * Pow023(volume)) \div 10
                    - 230 * complexity - (162 * Sqrt(loc * Milli)) \div 10
         IN  IF raw <= 0 THEN 0 ELSE (20 * raw + 171) \div 342

(***************************************************************************)
(* Files.  A file is described by what the file system and the parser      *)
(* report about it; path is the tuple Path.parts relative to the scanned   *)
(* root until rglob prefixes the root.                                     *)
(***************************************************************************)
Name(text, length, snake, dunder) ==
    [text |-> text, length |-> length, snake |-> snake, dunder |-> dunder]

Func(name, lineno, loc, complexity, cognitive, params, nesting) ==
    [name |-> name, lineno |-> lineno, loc |-> loc, complexity |-> complexity,
     cognitive |-> cognitive, params |-> params, nesting |-> nesting,
     mi |-> _calculate_maintainability_index(loc, complexity, cognitive),
     only_pass |-> FALSE, constants |-> <<>>, raises |-> FALSE]

File(path, suffix) ==
    [path |-> path, suffix |-> suffix, exists |-> TRUE, is_dir |-> FALSE,
     readable |-> TRUE, syntax_ok |-> TRUE, syntax_lineno |-> None,
     funcs |-> <<>>, js_funcs |-> <<>>, wildcard_imports |-> <<>>,
     lines |-> <<"x = 1", "">>]

load_data == Func(Name("load_data", 9, TRUE, FALSE), 1, 10, 2, 1, 1, 1)

long_func == Func(Name("long_func", 9, TRUE, FALSE), 1, 51, 3, 2, 2, 2)

tangled == Func(Name("tangled", 7, TRUE, FALSE), 60, 40, 16, 20, 6, 5)

retry == [Func(Name("Retry", 5, FALSE, FALSE), 120, 4, 1, 0, 0, 0)
            EXCEPT !.constants = <<<<42, 121>>, <<1, 122>>, <<2, 122>>>>]

crashing == [Func(Name("deep", 4, TRUE, FALSE), 9, 5, 1, 0, 0, 0)
                EXCEPT !.raises = TRUE]

CleanPy == [File(<<"clean.py">>, ".py") EXCEPT !.funcs = <<load_data>>]

SmellyPy ==
    [File(<<"src", "smelly.py">>, ".py") EXCEPT
        !.funcs = <<long_func, tangled, retry>>, !.wildcard_imports = <<2>>]

BrokenPy ==
    [File(<<"broken.py">>, ".py") EXCEPT !.syntax_ok = FALSE, !.syntax_lineno = 3]

MissingPy == [File(<<"gone.py">>, ".py") EXCEPT !.exists = FALSE]

LockedPy == [File(<<"locked.py">>, ".py") EXCEPT !.readable = FALSE]

DirPy == [File(<<"pkg.py">>, ".py") EXCEPT !.is_dir = TRUE]

CrashPy == [File(<<"crash.py">>, ".py") EXCEPT !.funcs = <<long_func, crashing>>]

AppJs ==
    [File(<<"web", "app.js">>, ".js") EXCEPT
        !.js_funcs = <<[name |-> "render", start_idx |-> 4,
                        func_length |-> 120, complexity |-> 12]>>]

NotesTxt == File(<<"notes.txt">>, ".txt")

DupPy == [File(<<"dup.py">>, ".py") EXCEPT !.lines = TwoBlockFile(0, 1, 0, TRUE)]

ShoutPy == [File(<<"SHOUT.PY">>, ".PY") EXCEPT !.funcs = <<retry>>]

VendoredJs ==
    [File(<<"src", "node_modules", "m.js">>, ".js") EXCEPT
        !.js_funcs = <<[name |-> "m", start_idx |-> 0,
                        func_length |-> 60, complexity |-> 3]>>]

WidgetTsx ==
    [File(<<"web", "widget.tsx">>, ".tsx") EXCEPT
        !.js_funcs = <<[name |-> "Widget", start_idx |-> 2,
                        func_length |-> 30, complexity |-> 25]>>,
        !.lines = TwoBlockFile(1, 1, 1, TRUE)]

NamedFiles ==
    {CleanPy, SmellyPy, BrokenPy, MissingPy, LockedPy, DirPy, CrashPy, AppJs,
     NotesTxt, DupPy, ShoutPy, VendoredJs, WidgetTsx}

(***************************************************************************)
(* Directory scan                                                          *)
(***************************************************************************)
code_extensions == {".py", ".js", ".ts", ".jsx", ".tsx"}

ignore_dirs ==
    {".git", ".vscode", "node_modules", "__pycache__", ".pytest_cache",
     "build", "dist"}

\* variant: the entries are named relative to the root
RglobRelative(root, tree) ==
    SelectSeq(tree, LAMBDA f : f.suffix \in code_extensions)

\* dir_path.rglob("*" + ext) for every ext: the entries below the root whose
\* name ends with a code extension, with their full path; their order is
\* whatever the file system gives
Rglob(root, tree) ==
    LET hits == SelectSeq(tree, LAMBDA f : f.suffix \in code_extensions)
    IN  [k \in 1..Len(hits) |-> [hits[k] EXCEPT !.path = root \o @]]

\* variant: f.parent.name in ignore_dirs, only the containing directory
HasIgnoredParent(f) == Len(f.path) >= 2 /\ f.path[Len(f.path) - 1] \in ignore_dirs

\* any(part in ignore_dirs for part in f.parts)
HasIgnoredPart(f) == \E k \in 1..Len(f.path) : f.path[k] \in ignore_dirs

\* _review_directory: the rglob loop and the ignore filter
review_code_files(root, tree) ==
    SelectSeq(Rglob(root, tree), LAMBDA f : ~HasIgnoredPart(f))

\* find_complex_functions, directory branch
complex_functions_files(root, tree) ==
    SelectSeq(Rglob(root, tree), LAMBDA f : ~HasIgnoredPart(f))

\* find_code_duplicates, directory branch
code_duplicates_files(root, tree) ==
    SelectSeq(Rglob(root, tree), LAMBDA f : ~HasIgnoredPart(f))

MaxReviewFiles == 20

\* if len(code_files) > 20: code_files = code_files[:20]; the notice is then
\* formatted from len(code_files)
CapFiles(code_files) ==
    IF Len(code_files) > MaxReviewFiles
    THEN LET capped == SubSeq(code_files, 1, MaxReviewFiles)
         IN  [code_files |-> capped, truncated_message |-> Len(capped)]
    ELSE [code_files |-> code_files, truncated_message |-> None]

(***************************************************************************)
(* Aggregation                                                             *)
(***************************************************************************)
CountSeverity(issues, sev) ==
    Cardinality({k \in 1..Len(issues) : issues[k].severity = sev})

FileSummary(path, issues, metrics) ==
    [path |-> path, total_issues |-> Len(issues),
     critical_issues |-> CountSeverity(issues, "critical"),
     major_issues |-> CountSeverity(issues, "major"),
     metrics |-> metrics.file_metrics]

\* sorted(..., reverse=True) on [key, item] pairs: stable, equal keys keep
\* their order
RECURSIVE InsertDescending(_, _)
InsertDescending(sorted, x) ==
    IF sorted = <<>> THEN <<x>>
    ELSE IF Head(sorted).key >= x.key
         THEN <<Head(sorted)>> \o InsertDescending(Tail(sorted), x)
         ELSE <<x>> \o sorted

RECURSIVE SortDescendingFrom(_, _)
SortDescendingFrom(sorted, rest) ==
    IF rest = <<>> THEN sorted
    ELSE SortDescendingFrom(InsertDescending(sorted, Head(rest)), Tail(rest))

SortedDescending(pairs) == SortDescendingFrom(<<>>, pairs)

Take(seq, n) == SubSeq(seq, 1, Min(n, Len(seq)))

\* issue_types[issue.type] = issue_types.get(issue.type, 0) + 1, as
\* [key |-> count, item |-> type] pairs in order of first occurrence
RECURSIVE CountTypes(_, _)
CountTypes(counts, issues) ==
    IF issues = <<>> THEN counts
    ELSE LET t == Head(issues).type
             known == {k \in 1..Len(counts) : counts[k].item = t}
         IN  CountTypes(
                IF known = {} THEN Append(counts, [key |-> 1, item |-> t])
                ELSE [k \in 1..Len(counts) |->
                        IF k \in known THEN [counts[k] EXCEPT !.key = @ + 1]
                        ELSE counts[k]],
                Tail(issues))

\* variant: the files are ranked by their number of issues alone
SummaryScoreUnweighted(x) == x.total_issues

SummaryScore(x) == x.critical_issues * 3 + x.major_issues * 2 + x.total_issues

\* sorted(file_summaries, key=..., reverse=True)[:10]
ProblematicFiles(summaries) ==
    Take(SortedDescending(
           [k \in 1..Len(summaries) |->
              [key |-> SummaryScore(summaries[k]), item |-> summaries[k]]]),
         10)

\* the lines under "Files Needing Attention": for file_info in
\* problematic_files[:5], one line when its total is above 0
FilesNeedingAttention(problematic_files) ==
    SelectSeq(Take(problematic_files, 5), LAMBDA p : p.item.total_issues > 0)

\* variant: `if not file_summaries`, the report is chosen by the summaries
_generate_directory_review_by_summaries(issues, metrics, summaries) ==
    IF summaries = <<>>
    THEN [kind |-> "no_issues"]
    ELSE [kind |-> "directory_review",
          total_files |-> Len(summaries),
          files_with_issues |->
              Cardinality({k \in 1..Len(summaries) : summaries[k].total_issues > 0}),
          total_issues |-> Len(issues),
          issue_counts |-> _group_issues_by_severity(issues),
          problematic_files |-> ProblematicFiles(summaries),
          files_needing_attention |->
              FilesNeedingAttention(ProblematicFiles(summaries)),
          common_issues |-> Take(SortedDescending(CountTypes(<<>>, issues)), 5)]

_generate_directory_review(issues, metrics, summaries) ==
    IF issues = <<>>
    THEN [kind |-> "no_issues"]
    ELSE [kind |-> "directory_review",
          total_files |-> Len(summaries),
          files_with_issues |->
              Cardinality({k \in 1..Len(summaries) : summaries[k].total_issues > 0}),
          total_issues |-> Len(issues),
          issue_counts |-> _group_issues_by_severity(issues),
          problematic_files |-> ProblematicFiles(summaries),
          files_needing_attention |->
              FilesNeedingAttention(ProblematicFiles(summaries)),
          common_issues |-> Take(SortedDescending(CountTypes(<<>>, issues)), 5)]

(***************************************************************************)
(* Inputs of the tools: a root directory and the entries below it          *)
(***************************************************************************)
MaxDirFiles == 3    \* longest tree drawn from TreeFiles
MaxDepth == 2       \* deepest directory of a located file
MaxFound == 22      \* longest generated tree

Roots == {<<"/", "home", "proj">>, <<"/", "home", "build", "proj">>}

InjectiveSeqs(S, lo, hi) ==
    {s \in UNION {[1..n -> S] : n \in lo..hi} :
        \A i, j \in 1..Len(s) : i # j => s[i] # s[j]}

TreeFiles ==
    {CleanPy, SmellyPy, BrokenPy, MissingPy, CrashPy, AppJs, NotesTxt, VendoredJs}

NamedTrees ==
    InjectiveSeqs(TreeFiles, 0, MaxDirFiles) \cup {<<f>> : f \in NamedFiles}

DirNames == {"src", "build", ".git"}

RelDirs == UNION {[1..n -> DirNames] : n \in 0..MaxDepth}

LocatedFiles ==
    {[File(d \o <<"a.py">>, ".py") EXCEPT !.funcs = <<long_func>>] : d \in RelDirs}
    \cup {File(d \o <<"b.js">>, ".js") : d \in RelDirs}

LocatedTrees ==
    {<<f, CleanPy>> : f \in LocatedFiles} \cup {<<CleanPy, f>> : f \in LocatedFiles}

GenNames ==
    <<"g01.py", "g02.py", "g03.py", "g04.py", "g05.py", "g06.py", "g07.py",
      "g08.py", "g09.py", "g10.py", "g11.py", "g12.py", "g13.py", "g14.py",
      "g15.py", "g16.py", "g17.py", "g18.py", "g19.py", "g20.py", "g21.py",
      "g22.py", "g23.py", "g24.py">>

GenFile(i, pattern) ==
    LET f == File(<<"gen", GenNames[i]>>, ".py") IN
    CASE pattern = "clean" -> [f EXCEPT !.funcs = <<load_data>>]
      [] pattern = "long" -> [f EXCEPT !.funcs = <<long_func>>]
      [] pattern = "mixed" ->
            (CASE i % 4 = 0 -> [f EXCEPT !.funcs = <<retry>>]
               [] i % 4 = 1 -> [f EXCEPT !.syntax_ok = FALSE, !.syntax_lineno = 3]
               [] i % 8 = 3 -> [f EXCEPT !.funcs = <<tangled>>]
               [] OTHER -> [f EXCEPT !.funcs = <<long_func>>])
      [] OTHER -> IF i % 3 = 0 THEN [f EXCEPT !.exists = FALSE]
                  ELSE [f EXCEPT !.funcs = <<long_func>>]

GeneratedTrees ==
    {[i \in 1..n |-> GenFile(i, pattern)] :
        n \in (MaxReviewFiles - 1)..MaxFound,
        pattern \in {"clean", "long", "mixed", "flaky"}}

TreeFamilies == {"named", "located", "generated"}

TreesOf(family) ==
    CASE family = "named" -> NamedTrees
      [] family = "located" -> LocatedTrees
      [] OTHER -> GeneratedTrees

\* resolved_path.is_file()
FileTargets == {f \in NamedFiles : f.exists /\ ~f.is_dir}

(***************************************************************************)
(* Spec: the tools review_code, find_complex_functions and                 *)
(* find_code_duplicates, one run of one tool per behaviour.  None of the   *)
(* three suspends after its display_tool_status call, so the steps of a    *)
(* run follow each other without interference.                             *)
(***************************************************************************)
NoAnalyzer == [issues |-> 0, metrics |-> 0]

NoReport == [kind |-> "none"]

NoScan == [mode |-> "none", root |-> <<>>, tree |-> <<>>]

FileScan(root, f) == [mode |-> "file", root |-> root, tree |-> <<f>>]

DirectoryScan(root, tree) == [mode |-> "directory", root |-> root, tree |-> tree]

ToolInit ==
    /\ store = EmptyStore
    /\ analyzer = NoAnalyzer
    /\ pc = "idle"
    /\ tool = "none"
    /\ scan = NoScan
    /\ files = <<>>
    /\ found = 0
    /\ truncated_message = None
    /\ idx = 0
    /\ all_issues = <<>>
    /\ all_metrics = EmptyDict
    /\ file_summaries = <<>>
    /\ collected = <<>>
    /\ calls = <<>>
    /\ report = NoReport

\* the record kept of one analyze_file call: the file, the returned pair, the
\* contents of self.issues at return and the contents of the returned list
\* and function_metrics dict at return
CallRecord(f, r) ==
    [file |-> f, ret |-> r.ret,
     accumulated |-> r.store.lists[r.self.issues],
     issues_then |-> r.store.lists[r.ret.issues],
     metrics_then |-> IF r.ret.metrics.function_metrics = 0 THEN EmptyDict
                      ELSE r.store.dicts[r.ret.metrics.function_metrics]]

\* variant: the loop never looks for the error key
IsErrorIgnored(metrics) == FALSE

IsError(metrics) == "error" \in metrics.keys

\* review_code on a path that is a file: _review_single_file
ReviewSingleFile(root, f) ==
    /\ pc = "idle"
    /\ LET target == [f EXCEPT !.path = root \o @]
           a == CodeAnalyzer__init__(store)
       IN  \E r \in {analyze_file(a.store, a.self, target)} :
           /\ store' = r.store
           /\ analyzer' = r.self
           /\ calls' = Append(calls, CallRecord(target, r))
           /\ files' = <<target>>
           /\ report' = IF IsError(r.ret.metrics) THEN [kind |-> "error"]
                        ELSE IF r.store.lists[r.ret.issues] = <<>>
                             THEN [kind |-> "no_issues"]
                        ELSE [kind |-> "single_file_review",
                              total_issues |-> Len(r.store.lists[r.ret.issues])]
    /\ tool' = "review_code"
    /\ scan' = FileScan(root, f)
    /\ idx' = 1
    /\ pc' = "done"
    /\ UNCHANGED <<found, truncated_message, all_issues, all_metrics,
                   file_summaries, collected, dupVars, asyncVars, funcVars, stateVars>>

\* review_code on a path that is neither a file nor a directory
ReviewPathNotFound ==
    /\ pc = "idle"
    /\ tool' = "review_code"
    /\ report' = [kind |-> "error"]
    /\ pc' = "done"
    /\ UNCHANGED <<store, analyzer, scan, files, found, truncated_message, idx,
                   all_issues, all_metrics, file_summaries, collected, calls,
                   dupVars, asyncVars, funcVars, stateVars>>

\* _review_directory up to the creation of the analyzer
StartReviewDirectory(root, tree) ==
    /\ pc = "idle"
    /\ tool' = "review_code"
    /\ scan' = DirectoryScan(root, tree)
    /\ LET code_files == review_code_files(root, tree)
           capped == CapFiles(code_files)
           a == CodeAnalyzer__init__(store)
       IN  /\ found' = Len(code_files)
           /\ IF code_files = <<>>
              THEN /\ report' = [kind |-> "no_code_files"]
                   /\ pc' = "done"
                   /\ UNCHANGED <<store, analyzer, files, truncated_message>>
              ELSE /\ files' = capped.code_files
                   /\ truncated_message' = capped.truncated_message
                   /\ store' = a.store
                   /\ analyzer' = a.self
                   /\ pc' = "loop"
                   /\ UNCHANGED report
    /\ UNCHANGED <<idx, all_issues, all_metrics, file_summaries, collected,
                   calls, dupVars, asyncVars, funcVars, stateVars>>

\* one iteration of `for file_path in code_files` of _review_directory
ReviewNextFile ==
    /\ pc = "loop" /\ tool = "review_code" /\ idx < Len(files)
    /\ \E r \in {analyze_file(store, analyzer, files[idx + 1])} :
       LET f == files[idx + 1]
           issues == r.store.lists[r.ret.issues]
           metrics == r.ret.metrics
       IN  /\ store' = r.store
           /\ analyzer' = r.self
           /\ calls' = Append(calls, CallRecord(f, r))
           /\ IF ~IsError(metrics)
              THEN /\ all_issues' = all_issues \o issues
                   /\ all_metrics' = DictSet(all_metrics, f.path, metrics)
                   /\ file_summaries' =
                        Append(file_summaries, FileSummary(f.path, issues, metrics))
              ELSE UNCHANGED <<all_issues, all_metrics, file_summaries>>
    /\ idx' = idx + 1
    /\ UNCHANGED <<pc, tool, scan, files, found, truncated_message, collected,
                   report, dupVars, asyncVars, funcVars, stateVars>>

\* return _generate_directory_review(...) + truncated_message
FinishReviewDirectory ==
    /\ pc = "loop" /\ tool = "review_code" /\ idx = Len(files)
    /\ report' = _generate_directory_review(all_issues, all_metrics, file_summaries)
    /\ pc' = "done"
    /\ UNCHANGED <<store, analyzer, tool, scan, files, found, truncated_message, idx,
                   all_issues, all_metrics, file_summaries, collected, calls,
                   dupVars, asyncVars, funcVars, stateVars>>

\* the start of find_complex_functions and find_code_duplicates: the list of
\* files to analyze and the analyzer
StartTool(name, called_on, files_to_analyze) ==
    /\ pc = "idle"
    /\ tool' = name
    /\ scan' = called_on
    /\ files' = files_to_analyze
    /\ found' = Len(files_to_analyze)
    /\ LET a == CodeAnalyzer__init__(store)
       IN  store' = a.store /\ analyzer' = a.self
    /\ pc' = "loop"
    /\ UNCHANGED <<truncated_message, idx, all_issues, all_metrics,
                   file_summaries, collected, calls, report, dupVars, asyncVars, funcVars, stateVars>>

StartFindComplexFile(root, f) ==
    StartTool("find_complex_functions", FileScan(root, f),
              <<[f EXCEPT !.path = root \o @]>>)

StartFindComplexDirectory(root, tree) ==
    StartTool("find_complex_functions", DirectoryScan(root, tree),
              complex_functions_files(root, tree))

StartFindDuplicatesFile(root, f) ==
    StartTool("find_code_duplicates", FileScan(root, f),
              <<[f EXCEPT !.path = root \o @]>>)

StartFindDuplicatesDirectory(root, tree) ==
    StartTool("find_code_duplicates", DirectoryScan(root, tree),
              code_duplicates_files(root, tree))

min_complexity == 10

\* the entries of function_metrics with cyclomatic_complexity >= min_complexity
ComplexEntries(path, function_metrics) ==
    LET names == {n \in DOMAIN function_metrics :
                     function_metrics[n].cyclomatic_complexity >= min_complexity}
        RECURSIVE AsSeq(_)
        AsSeq(S) == IF S = {} THEN <<>>
                    ELSE LET n == CHOOSE x \in S : TRUE
                         IN  <<[key |-> function_metrics[n].cyclomatic_complexity,
                                item |-> [file |-> path, function |-> n]]>>
                             \o AsSeq(S \ {n})
    IN  AsSeq(names)

\* one iteration of the loop of find_complex_functions
ComplexNextFile ==
    /\ pc = "loop" /\ tool = "find_complex_functions" /\ idx < Len(files)
    /\ \E r \in {analyze_file(store, analyzer, files[idx + 1])} :
       LET f == files[idx + 1]
           metrics == r.ret.metrics
       IN  /\ store' = r.store
           /\ analyzer' = r.self
           /\ calls' = Append(calls, CallRecord(f, r))
           /\ collected' =
                IF "function_metrics" \in metrics.keys
                THEN collected \o ComplexEntries(f.path,
                                    r.store.dicts[metrics.function_metrics])
                ELSE collected
    /\ idx' = idx + 1
    /\ UNCHANGED <<pc, tool, scan, files, found, truncated_message, all_issues,
                   all_metrics, file_summaries, report, dupVars, asyncVars, funcVars, stateVars>>

FinishFindComplex ==
    /\ pc = "loop" /\ tool = "find_complex_functions" /\ idx = Len(files)
    /\ report' = IF collected = <<>> THEN [kind |-> "no_complex_functions"]
                 ELSE [kind |-> "complex_functions",
                       complex_functions |-> SortedDescending(collected)]
    /\ pc' = "done"
    /\ UNCHANGED <<store, analyzer, tool, scan, files, found, truncated_message, idx,
                   all_issues, all_metrics, file_summaries, collected, calls,
                   dupVars, asyncVars, funcVars, stateVars>>

\* one iteration of the loop of find_code_duplicates
DuplicatesNextFile ==
    /\ pc = "loop" /\ tool = "find_code_duplicates" /\ idx < Len(files)
    /\ \E r \in {analyze_file(store, analyzer, files[idx + 1])} :
       LET f == files[idx + 1]
           issues == r.store.lists[r.ret.issues]
       IN  /\ store' = r.store
           /\ analyzer' = r.self
           /\ calls' = Append(calls, CallRecord(f, r))
           /\ collected' =
                collected \o SelectSeq(issues, LAMBDA i : i.type = "duplication")
    /\ idx' = idx + 1
    /\ UNCHANGED <<pc, tool, scan, files, found, truncated_message, all_issues,
                   all_metrics, file_summaries, report, dupVars, asyncVars, funcVars, stateVars>>

FinishFindDuplicates ==
    /\ pc = "loop" /\ tool = "find_code_duplicates" /\ idx = Len(files)
    /\ report' = IF collected = <<>> THEN [kind |-> "no_duplication"]
                 ELSE [kind |-> "duplication_report", duplicates |-> collected]
    /\ pc' = "done"
    /\ UNCHANGED <<store, analyzer, tool, scan, files, found, truncated_message, idx,
                   all_issues, all_metrics, file_summaries, collected, calls,
                   dupVars, asyncVars, funcVars, stateVars>>

(***************************************************************************)
(* StateManager.  self.data is a StateData; an Optional value is <<>> for  *)
(* None and <<v>> for v.  Every method is an operator from the data and    *)
(* the reading of the clock to [data, ret, saved], saved telling that the  *)
(* method ended with self._save_state().                                   *)
(***************************************************************************)
MAX_CONTEXT_ENTRIES == 10

MAX_COMMAND_HISTORY == 50

ContextEntry(timestamp, command, working_directory, success, summary, tag) ==
    [timestamp |-> timestamp, command |-> command,
     working_directory |-> working_directory, success |-> success,
     summary |-> summary, tag |-> tag]

ProjectState(tag, working_directory, created_at, last_accessed, notes) ==
    [tag |-> tag, working_directory |-> working_directory,
     created_at |-> created_at, last_accessed |-> last_accessed,
     context_entries |-> <<>>, notes |-> notes]

StateData ==
    [current_tag |-> <<>>, recent_context |-> <<>>, project_states |-> EmptyDict,
     command_history |-> <<>>]

\* variant: list.pop() in place of list.pop(0), the newest entry is dropped
AppendCappedDroppingNewest(list, item, max) ==
    IF Len(list) + 1 > max THEN list ELSE Append(list, item)

\* list.append(item); if len(list) > max: list.pop(0)
AppendCapped(list, item, max) ==
    IF Len(list) + 1 > max THEN Tail(Append(list, item)) ELSE Append(list, item)

\* `if self.data.current_tag and self.data.current_tag in self.data.project_states`
HasCurrentProject(d) ==
    /\ d.current_tag # <<>>
    /\ d.current_tag[1] # ""
    /\ d.current_tag[1] \in DOMAIN d.project_states

add_context_entry(d, clock, command, working_directory, success, summary) ==
    LET entry == ContextEntry(clock, command, working_directory, success, summary,
                              d.current_tag)
        project_states ==
            IF HasCurrentProject(d)
            THEN [d.project_states EXCEPT
                     ![d.current_tag[1]] =
                         [@ EXCEPT !.context_entries =
                                       AppendCapped(@, entry, MAX_CONTEXT_ENTRIES),
                                   !.last_accessed = clock]]
            ELSE d.project_states
    IN  [data |-> [d EXCEPT
                      !.recent_context = AppendCapped(@, entry, MAX_CONTEXT_ENTRIES),
                      !.project_states = project_states,
                      !.command_history = AppendCapped(@, command, MAX_COMMAND_HISTORY)],
         ret |-> <<>>, saved |-> TRUE]

create_tag(d, clock, tag, working_directory, notes) ==
    IF tag \in DOMAIN d.project_states
    THEN [data |-> d, ret |-> FALSE, saved |-> FALSE]
    ELSE [data |-> [d EXCEPT !.project_states =
                       DictSet(@, tag, ProjectState(tag, working_directory,
                                                    clock, clock, notes))],
          ret |-> TRUE, saved |-> TRUE]

switch_to_tag(d, clock, tag) ==
    IF tag \notin DOMAIN d.project_states
    THEN [data |-> d, ret |-> <<>>, saved |-> FALSE]
    ELSE LET Switched(project) ==
                 [data |-> [d EXCEPT !.current_tag = <<tag>>,
                                     !.project_states[tag] = project],
                  ret |-> <<project>>, saved |-> TRUE]
         IN  Switched([d.project_states[tag] EXCEPT !.last_accessed = clock])

\* variant: the tag is deleted and current_tag keeps naming it
remove_tag_keeping_current(d, tag) ==
    IF tag \notin DOMAIN d.project_states
    THEN [data |-> d, ret |-> FALSE, saved |-> FALSE]
    ELSE [data |-> [d EXCEPT !.project_states =
                       [t \in DOMAIN @ \ {tag} |-> @[t]]],
          ret |-> TRUE, saved |-> TRUE]

remove_tag(d, tag) ==
    IF tag \notin DOMAIN d.project_states
    THEN [data |-> d, ret |-> FALSE, saved |-> FALSE]
    ELSE [data |-> [d EXCEPT
                       !.current_tag = IF @ = <<tag>> THEN <<>> ELSE @,
                       !.project_states = [t \in DOMAIN @ \ {tag} |-> @[t]]],
          ret |-> TRUE, saved |-> TRUE]

NoCall == [op |-> "none", tag |-> "", ret |-> <<>>]

StateUnused ==
    /\ data = StateData
    /\ state_file = <<>>
    /\ now = 0
    /\ sm_history = [last |-> NoCall, before |-> StateData, arrived |-> <<>>]
    /\ budget = [tag_ops |-> 0, adds |-> 0, interleaved |-> FALSE]

DupUnused ==
    /\ content = <<"">>
    /\ dup_issues = <<>>
    /\ dup_again = <<>>
    /\ dup_pc = "unused"
    /\ file_metrics = <<>>

IndexUnused ==
    /\ index_args = [loc |-> 0, complexity |-> 1, cognitive |-> 0]
    /\ index = <<>>

FuncUnused ==
    /\ source = [lines |-> <<"">>, tree |-> [kind |-> "Module", children |-> <<>>]]
    /\ ast_issues = <<>>
    /\ ast_metrics = EmptyDict
    /\ ast_pc = "unused"
    /\ IndexUnused

AsyncUnused ==
    /\ analyzers = <<>>
    /\ tasks = <<>>
    /\ running = 0

Init ==
    /\ ToolInit
    /\ StateUnused
    /\ DupUnused
    /\ AsyncUnused
    /\ FuncUnused

Next ==
    \/ \E root \in Roots, f \in FileTargets : ReviewSingleFile(root, f)
    \/ ReviewPathNotFound
    \/ \E root \in Roots, family \in TreeFamilies : \E tree \in TreesOf(family) : StartReviewDirectory(root, tree)
    \/ ReviewNextFile
    \/ FinishReviewDirectory
    \/ \E root \in Roots, f \in FileTargets : StartFindComplexFile(root, f)
    \/ \E root \in Roots, family \in TreeFamilies : \E tree \in TreesOf(family) : StartFindComplexDirectory(root, tree)
    \/ ComplexNextFile
    \/ FinishFindComplex
    \/ \E root \in Roots, f \in FileTargets : StartFindDuplicatesFile(root, f)
    \/ \E root \in Roots, family \in TreeFamilies : \E tree \in TreesOf(family) : StartFindDuplicatesDirectory(root, tree)
    \/ DuplicatesNextFile
    \/ FinishFindDuplicates

Spec == Init /\ [][Next]_vars

(***************************************************************************)
(* SpecAsync: tool coroutines of several agent tasks on one event loop.    *)
(* A coroutine gives up the loop only at an await that suspends: the       *)
(* display_tool_status call at its start.  From there to its return it     *)
(* runs without interruption; the steps below follow its statements.       *)
(***************************************************************************)
NumTasks == 2

TaskIds == 1..NumTasks

AsyncFiles == {SmellyPy, CrashPy, AppJs}

IdleTask ==
    [pc |-> "idle", tool |-> "none", file |-> CleanPy, analyzer |-> 0,
     ret |-> [issues |-> 0], overlapped |-> FALSE]

AsyncInit ==
    /\ ToolInit
    /\ StateUnused
    /\ DupUnused
    /\ FuncUnused
    /\ analyzers = <<>>
    /\ tasks = [t \in TaskIds |-> IdleTask]
    /\ running = 0

\* variant: analyze_file is a coroutine that awaits between its reset and
\* its analysis
YieldsInsideAnalysis(position) == position \in {"awaiting", "analyzing", "done"}

\* the positions at which a task hands the event loop back
Yields(position) == position \in {"awaiting", "done"}

NextRunning(t, position) == IF Yields(position) THEN 0 ELSE t

CanRun(t) == running \in {0, t}

\* variant: one module-level CodeAnalyzer serves every call
SharedAnalyzer(objects) == 1

\* analyzer = CodeAnalyzer(): the object the call works with is a new one
OwnAnalyzer(objects) == Len(objects) + 1

\* a tool coroutine is started and reaches its await display_tool_status
Call(t, name, f) ==
    /\ CanRun(t)
    /\ tasks[t].pc = "idle"
    /\ tasks' = [tasks EXCEPT ![t] = [@ EXCEPT !.pc = "awaiting", !.tool = name,
                                               !.file = f]]
    /\ running' = NextRunning(t, "awaiting")
    /\ UNCHANGED <<store, analyzers, runVars, dupVars, funcVars, stateVars>>

CallReviewCode(t, f) == Call(t, "review_code", f)

CallSuggestRefactor(t, f) == Call(t, "suggest_refactor", f)

CallFindComplexFunctions(t, f) == Call(t, "find_complex_functions", f)

CallFindCodeDuplicates(t, f) == Call(t, "find_code_duplicates", f)

\* the task is resumed and executes analyzer = CodeAnalyzer()
Resume(t) ==
    /\ CanRun(t)
    /\ tasks[t].pc = "awaiting"
    /\ LET slot == OwnAnalyzer(analyzers)
           a == CodeAnalyzer__init__(store)
       IN  /\ IF slot > Len(analyzers)
              THEN store' = a.store /\ analyzers' = Append(analyzers, a.self)
              ELSE UNCHANGED <<store, analyzers>>
           /\ tasks' = [tasks EXCEPT ![t] =
                  [@ EXCEPT !.pc = "constructed", !.analyzer = slot,
                            !.overlapped =
                                \E u \in TaskIds \ {t} : tasks[u].pc = "awaiting"]]
    /\ running' = NextRunning(t, "constructed")
    /\ UNCHANGED <<runVars, dupVars, funcVars, stateVars>>

\* analyze_file is entered: self.issues = []; self.metrics = {}
EnterAnalyzeFile(t) ==
    /\ CanRun(t)
    /\ tasks[t].pc = "constructed"
    /\ LET r == ResetAccumulators(store, analyzers[tasks[t].analyzer])
       IN  /\ store' = r.store
           /\ analyzers' = [analyzers EXCEPT ![tasks[t].analyzer] = r.self]
    /\ tasks' = [tasks EXCEPT ![t].pc = "analyzing"]
    /\ running' = NextRunning(t, "analyzing")
    /\ UNCHANGED <<runVars, dupVars, funcVars, stateVars>>

\* the try block of analyze_file runs and the pair is returned
LeaveAnalyzeFile(t) ==
    /\ CanRun(t)
    /\ tasks[t].pc = "analyzing"
    /\ LET r == TryAnalyze(store, analyzers[tasks[t].analyzer], tasks[t].file)
       IN  /\ store' = r.store
           /\ tasks' = [tasks EXCEPT ![t] = [@ EXCEPT !.pc = "returned", !.ret = r.ret]]
    /\ running' = NextRunning(t, "returned")
    /\ UNCHANGED <<analyzers, runVars, dupVars, funcVars, stateVars>>

\* the report is built from the returned pair and the coroutine returns
Return(t) ==
    /\ CanRun(t)
    /\ tasks[t].pc = "returned"
    /\ tasks' = [tasks EXCEPT ![t].pc = "done"]
    /\ running' = NextRunning(t, "done")
    /\ UNCHANGED <<store, analyzers, runVars, dupVars, funcVars, stateVars>>

AsyncNext ==
    \/ \E t \in TaskIds, f \in AsyncFiles : CallReviewCode(t, f)
    \/ \E t \in TaskIds, f \in AsyncFiles : CallSuggestRefactor(t, f)
    \/ \E t \in TaskIds, f \in AsyncFiles : CallFindComplexFunctions(t, f)
    \/ \E t \in TaskIds, f \in AsyncFiles : CallFindCodeDuplicates(t, f)
    \/ \E t \in TaskIds : Resume(t)
    \/ \E t \in TaskIds : EnterAnalyzeFile(t)
    \/ \E t \in TaskIds : LeaveAnalyzeFile(t)
    \/ \E t \in TaskIds : Return(t)

SpecAsync == AsyncInit /\ [][AsyncNext]_vars

(***************************************************************************)
(* SpecDup: the detector applied to bounded file contents                  *)
(***************************************************************************)
DupPath == <<"dup.py", 0>>

DupInit ==
    /\ ToolInit
    /\ StateUnused
    /\ AsyncUnused
    /\ FuncUnused
    /\ content \in TwoBlockFiles \cup AlphabetFiles
    /\ dup_issues = <<>>
    /\ dup_again = <<>>
    /\ dup_pc = "loaded"
    /\ file_metrics = <<>>

DetectDuplication ==
    /\ dup_pc = "loaded"
    /\ dup_issues' = dup_issues \o _detect_code_duplication(content, DupPath)
    /\ dup_pc' = "scanned"
    /\ UNCHANGED <<content, dup_again, file_metrics, toolVars, asyncVars, funcVars, stateVars>>

\* a second run of the detector on the same content, appending to the list
\* of a second analysis (analyze_file starts every analysis with a new list)
DetectDuplicationAgain ==
    /\ dup_pc = "scanned"
    /\ dup_again' = dup_again \o _detect_code_duplication(content, DupPath)
    /\ dup_pc' = "rescanned"
    /\ UNCHANGED <<content, dup_issues, file_metrics, toolVars, asyncVars, funcVars, stateVars>>

DupNext == DetectDuplication \/ DetectDuplicationAgain

SpecDup == DupInit /\ [][DupNext]_vars

(***************************************************************************)
(* SpecMetrics: _calculate_file_metrics on bounded file contents           *)
(***************************************************************************)
\* empty, whitespace-only, comment-only (indented or not) and code lines, one
\* of them with a comment after the code
MetricAlphabet ==
    {"", "   ", "# note", "    # note", "x = 1", "    x = 1", "x = 1  # note"}

\* content.split('\n') is never empty: the empty file is one empty line
MetricFiles == UNION {[1..n -> MetricAlphabet] : n \in 1..MaxMetricLines}

MetricsInit ==
    /\ ToolInit
    /\ StateUnused
    /\ AsyncUnused
    /\ FuncUnused
    /\ content \in MetricFiles
    /\ dup_issues = <<>>
    /\ dup_again = <<>>
    /\ dup_pc = "unused"
    /\ file_metrics = <<>>

CalculateFileMetrics ==
    /\ file_metrics = <<>>
    /\ file_metrics' = <<_calculate_file_metrics(content)>>
    /\ UNCHANGED <<content, dup_issues, dup_again, dup_pc, toolVars, asyncVars, funcVars, stateVars>>

MetricsNext == CalculateFileMetrics

SpecMetrics == MetricsInit /\ [][MetricsNext]_vars

(***************************************************************************)
(* SpecState: calls of create_tag, switch_to_tag, remove_tag and           *)
(* add_context_entry on a StateManager that found no state file.  A run    *)
(* has a budget of calls: many tag calls around few entries, some tag      *)
(* calls among the entries that fill the context lists, or some tag calls  *)
(* before the entries that fill the command history.                       *)
(***************************************************************************)
Tags == {"api", "web"}

WorkDir == "/home/proj"

Budgets ==
    {[tag_ops |-> MaxTagOps, adds |-> MaxFewAdds, interleaved |-> TRUE],
     [tag_ops |-> MaxFewTagOps, adds |-> MaxSomeAdds, interleaved |-> TRUE],
     [tag_ops |-> MaxFewTagOps, adds |-> MaxAdds, interleaved |-> FALSE]}

StateInit ==
    /\ ToolInit
    /\ DupUnused
    /\ AsyncUnused
    /\ FuncUnused
    /\ data = StateData
    /\ state_file = <<>>
    /\ now = 0
    /\ sm_history = [last |-> NoCall, before |-> StateData, arrived |-> <<>>]
    /\ budget \in Budgets

\* what a call leaves behind: the data, the file when the method saved, the
\* record of the call
Called(op, tag, r, entries) ==
    /\ data' = r.data
    /\ state_file' = IF r.saved THEN <<r.data>> ELSE state_file
    /\ now' = now + 1
    /\ sm_history' = [last |-> [op |-> op, tag |-> tag, ret |-> r.ret],
                      before |-> data,
                      arrived |-> sm_history.arrived \o entries]
    /\ UNCHANGED <<toolVars, dupVars, asyncVars, funcVars>>

MayCallTagOp ==
    /\ budget.tag_ops > 0
    /\ budget.interleaved \/ sm_history.arrived = <<>>

CreateTag(tag) ==
    /\ MayCallTagOp
    /\ budget' = [budget EXCEPT !.tag_ops = @ - 1]
    /\ Called("create_tag", tag, create_tag(data, now + 1, tag, WorkDir, ""), <<>>)

SwitchToTag(tag) ==
    /\ MayCallTagOp
    /\ budget' = [budget EXCEPT !.tag_ops = @ - 1]
    /\ Called("switch_to_tag", tag, switch_to_tag(data, now + 1, tag), <<>>)

RemoveTag(tag) ==
    /\ MayCallTagOp
    /\ budget' = [budget EXCEPT !.tag_ops = @ - 1]
    /\ Called("remove_tag", tag, remove_tag(data, tag), <<>>)

\* the n-th call carries the command "n": the commands of a run differ
AddContextEntry ==
    /\ budget.adds > 0
    /\ budget' = [budget EXCEPT !.adds = @ - 1]
    /\ LET command == Len(sm_history.arrived) + 1
       IN  Called("add_context_entry", "",
                  add_context_entry(data, now + 1, command, WorkDir, TRUE, <<>>),
                  <<ContextEntry(now + 1, command, WorkDir, TRUE, <<>>,
                                 data.current_tag)>>)

StateNext ==
    \/ \E tag \in Tags : CreateTag(tag)
    \/ \E tag \in Tags : SwitchToTag(tag)
    \/ \E tag \in Tags : RemoveTag(tag)
    \/ AddContextEntry

SpecState == StateInit /\ [][StateNext]_vars

(***************************************************************************)
(* Python syntax trees.  A node is a record with its class name (kind),    *)
(* the attributes the analyzer reads (name, args.args, len(values), value, *)
(* lineno) and the sequence ast.iter_child_nodes yields (children).        *)
(***************************************************************************)
NoName == Name("", 0, FALSE, FALSE)

Node(kind, lineno, children) ==
    [kind |-> kind, name |-> NoName, args |-> <<>>, values |-> 0,
     numeric |-> FALSE, value |-> 0, lineno |-> lineno, children |-> children]

NameNode(lineno) == Node("Name", lineno, <<>>)

\* ast.Constant with an int or float value
Constant(value, lineno) ==
    [Node("Constant", lineno, <<>>) EXCEPT !.numeric = TRUE, !.value = value]

\* ast.BoolOp with n operands, each a Name
BoolOp(n, lineno) ==
    [Node("BoolOp", lineno, [k \in 1..n |-> NameNode(lineno)]) EXCEPT !.values = n]

\* ast.arguments with one ast.arg per entry of args.args
Arguments(args) ==
    Node("arguments", 0, [k \in 1..Len(args) |-> Node("arg", 0, <<>>)])

\* ast.FunctionDef / ast.AsyncFunctionDef: children are args, then the body
Def(kind, name, args, lineno, body) ==
    [Node(kind, lineno, <<Arguments(args)>> \o body) EXCEPT
        !.name = name, !.args = args]

FunctionDef(name, args, lineno, body) == Def("FunctionDef", name, args, lineno, body)

\* ast.walk: breadth first, a node before its children
\* the concatenation of seqs[lo..hi]
RECURSIVE ConcatRange(_, _, _)
ConcatRange(seqs, lo, hi) ==
    IF lo > hi THEN <<>>
    ELSE IF lo = hi THEN seqs[lo]
    ELSE ConcatRange(seqs, lo, (lo + hi) \div 2)
         \o ConcatRange(seqs, (lo + hi) \div 2 + 1, hi)

Concat(seqs) == ConcatRange(seqs, 1, Len(seqs))

\* todo.popleft() then todo.extend(iter_child_nodes(node)): the nodes of the
\* queue come out first, then their children in the same order, and so on
RECURSIVE WalkFrom(_)
WalkFrom(todo) ==
    IF todo = <<>> THEN <<>>
    ELSE todo \o WalkFrom(Concat([k \in 1..Len(todo) |-> todo[k].children]))

walk(node) == WalkFrom(<<node>>)

\* variant: an and/or chain adds one per operand
CyclomaticStepPerOperand(child) ==
    IF child.kind \in {"If", "While", "For", "AsyncFor"} THEN 1
    ELSE IF child.kind = "ExceptHandler" THEN 1
    ELSE IF child.kind \in {"With", "AsyncWith"} THEN 1
    ELSE IF child.kind = "BoolOp" THEN child.values
    ELSE 0

\* what one node met by ast.walk adds to the cyclomatic complexity
CyclomaticStep(child) ==
    IF child.kind \in {"If", "While", "For", "AsyncFor"} THEN 1
    ELSE IF child.kind = "ExceptHandler" THEN 1
    ELSE IF child.kind \in {"With", "AsyncWith"} THEN 1
    ELSE IF child.kind = "BoolOp" THEN child.values - 1
    ELSE 0

\* the sum of a sequence of naturals: the number of pairs <<k, unit>> with
\* unit in 1..values[k]
SumOf(values) ==
    Cardinality(UNION {{<<k, unit>> : unit \in 1..values[k]} : k \in 1..Len(values)})

\* the loop over the nodes: every node adds its step to the counter
CyclomaticOver(complexity, nodes) ==
    complexity + SumOf([k \in 1..Len(nodes) |-> CyclomaticStep(nodes[k])])

_calculate_cyclomatic_complexity(node) == CyclomaticOver(1, walk(node))

\* visit_node and its loop over ast.iter_child_nodes; the value is what the
\* visit adds to the nonlocal counter
RECURSIVE visit_node(_, _)
RECURSIVE VisitChildren(_, _)
\* variant: a conditional, loop or handler adds 1 whatever its nesting level
visit_node_unweighted(node, level) ==
    IF node.kind \in {"If", "While", "For", "AsyncFor", "ExceptHandler"}
    THEN 1 + VisitChildren(node.children, level + 1)
    ELSE IF node.kind = "BoolOp"
    THEN node.values - 1 + VisitChildren(node.children, level)
    ELSE VisitChildren(node.children, level)

visit_node(node, level) ==
    IF node.kind \in {"If", "While", "For", "AsyncFor"}
    THEN 1 + level + VisitChildren(node.children, level + 1)
    ELSE IF node.kind = "ExceptHandler"
    THEN 1 + level + VisitChildren(node.children, level + 1)
    ELSE IF node.kind = "BoolOp"
    THEN node.values - 1 + VisitChildren(node.children, level)
    ELSE VisitChildren(node.children, level)

VisitChildren(children, level) ==
    SumOf([k \in 1..Len(children) |-> visit_node(children[k], level)])

\* variant: the nesting level of the function body is 1
_calculate_cognitive_complexity_from_one(node) == VisitChildren(node.children, 1)

_calculate_cognitive_complexity(node) == VisitChildren(node.children, 0)

\* get_depth(node, current_depth) and its loop over the children
RECURSIVE get_depth(_, _)
RECURSIVE DepthOverChildren(_, _, _)
get_depth(node, current_depth) ==
    DepthOverChildren(
        current_depth, node.children,
        IF node.kind \in {"If", "While", "For", "AsyncFor", "With", "AsyncWith", "Try"}
        THEN current_depth + 1 ELSE current_depth)

DepthOverChildren(max_depth, children, current_depth) ==
    LET depths == {max_depth} \cup {get_depth(children[k], current_depth) :
                                        k \in 1..Len(children)}
    IN  CHOOSE deepest \in depths : \A depth \in depths : depth <= deepest

_calculate_nesting_depth(node) == get_depth(node, 0)

\* the scan for the end of the function: i runs over range(start + 1, len(lines))
\* `end` when the loop has no turn or breaks in its first one, else the
\* index of the turn that breaks, else len(lines)
FunctionEnd(lines, indent_level, i, end) ==
    LET breaks == {k \in i..(Len(lines) - 1) :
                      Strip(lines[k + 1]) # "" /\ Indent(lines[k + 1]) <= indent_level}
    IN  IF i >= Len(lines) \/ i \in breaks THEN end
        ELSE IF breaks = {} THEN Len(lines)
        ELSE CHOOSE k \in breaks : \A other \in breaks : k <= other

\* [line for line in lines[start:end] if line.strip()]
_get_function_lines(func_node, lines) ==
    LET start == func_node.lineno - 1
        end == FunctionEnd(lines, Indent(lines[start + 1]), start + 1, start + 1)
    IN  SelectSeq(SubSeq(lines, start + 1, end), LAMBDA line : Strip(line) # "")

\* the numeric constants ast.walk(func_node) meets, as <<value, lineno>>
NumericConstants(nodes) ==
    LET met == SelectSeq(nodes, LAMBDA node : node.kind = "Constant" /\ node.numeric)
    IN  [k \in 1..Len(met) |-> <<met[k].value, met[k].lineno>>]

\* what _analyze_python_function computes from func_node before its checks;
\* the three locals are computed once and then used as values
FunctionDescriptor(func_node, lines) ==
    LET Described(loc, complexity, cognitive) ==
            [name |-> func_node.name, lineno |-> func_node.lineno, loc |-> loc,
             complexity |-> complexity, cognitive |-> cognitive,
             params |-> Len(func_node.args),
             nesting |-> _calculate_nesting_depth(func_node),
             mi |-> _calculate_maintainability_index(loc, complexity, cognitive),
             only_pass |-> Len(func_node.children) = 2
                           /\ func_node.children[2].kind = "Pass",
             constants |-> NumericConstants(walk(func_node)),
             raises |-> FALSE]
    IN  CHOOSE described \in
            {Described(loc, complexity, cognitive) :
                loc \in {Len(_get_function_lines(func_node, lines))},
                complexity \in {_calculate_cyclomatic_complexity(func_node)},
                cognitive \in {_calculate_cognitive_complexity(func_node)}} : TRUE

\* for node in ast.walk(tree): if isinstance(node, ast.FunctionDef): ...
Functions(tree) == SelectSeq(walk(tree), LAMBDA node : node.kind = "FunctionDef")

\* a Python file that parses to `tree`: the functions are those of the tree
ParsedFile(path, lines, tree) ==
    [File(path, ".py") EXCEPT
        !.lines = lines,
        !.funcs = LET functions == Functions(tree)
                  IN  [k \in 1..Len(functions) |->
                          FunctionDescriptor(functions[k], lines)]]

(***************************************************************************)
(* Source text and tree of a module.  The code gets both from one string:  *)
(* the tree from ast.parse(content), the lines from content.split.  The    *)
(* model starts from a layout (the statements in textual order, with blank *)
(* and comment lines as entries of their own), numbers its lines, writes   *)
(* it out as text and drops the entries that are no nodes.                 *)
(***************************************************************************)
LayoutOnly == {"Blank", "Comment"}

\* an elif clause of the layout: in the tree it is an If, the last statement
\* of the if statement it belongs to
ElifClause == "Elif"

StatementKinds ==
    {"FunctionDef", "AsyncFunctionDef", "ClassDef", "If", "While", "For",
     "AsyncFor", "With", "AsyncWith", "Try", "ExceptHandler", "Assign",
     "Return", "Pass", "Expr", ElifClause} \cup LayoutOnly

FuncName(text) == Name(text, Len(text), text # "Handle", FALSE)

CallExpr == Node("Call", 0, <<NameNode(0), NameNode(0)>>)

Assign(value) == Node("Assign", 0, <<NameNode(0), value>>)

Compute == Assign(CallExpr)

Limit(v) == Assign(Constant(v, 0))

NegativeLimit(v) == Assign(Node("UnaryOp", 0, <<Constant(v, 0)>>))

Increment == Assign(Node("BinOp", 0, <<NameNode(0), Constant(1, 0)>>))

ReturnIfExp ==
    Node("Return", 0, <<Node("IfExp", 0, <<NameNode(0), NameNode(0), NameNode(0)>>)>>)

PassStmt == Node("Pass", 0, <<>>)

Blank == Node("Blank", 0, <<>>)

Comment == Node("Comment", 0, <<>>)

If(test, body) == Node("If", 0, <<test>> \o body)

\* a compound statement of the given kind around `body`; "Except" is a try
\* statement with `body` in its handler
Compound(kind, body) ==
    CASE kind = "If" -> If(NameNode(0), body)
      [] kind = "While" -> Node("While", 0, <<NameNode(0)>> \o body)
      [] kind \in {"For", "AsyncFor"} -> Node(kind, 0, <<NameNode(0), NameNode(0)>> \o body)
      [] kind \in {"With", "AsyncWith"} ->
            Node(kind, 0, <<Node("withitem", 0, <<NameNode(0)>>)>> \o body)
      [] kind = "Try" ->
            Node("Try", 0, body \o <<Node("ExceptHandler", 0, <<NameNode(0), PassStmt>>)>>)
      [] kind = "Except" ->
            Node("Try", 0, <<Compute>> \o <<Node("ExceptHandler", 0, <<NameNode(0)>> \o body)>>)
      [] kind \in {"FunctionDef", "AsyncFunctionDef"} ->
            Def(kind, FuncName("helper"), <<>>, 0, body)
      [] OTHER -> Node(kind, 0, body)

SourceText(node) ==
    CASE node.kind = "Pass" -> "pass"
      [] node.kind = "If" ->
            IF node.children[1].kind # "BoolOp" THEN "if request:"
            ELSE IF node.children[1].values = 2 THEN "if request and ready:"
            ELSE "if request and ready and armed:"
      [] node.kind = ElifClause -> "elif request:"
      [] node.kind = "While" -> "while request:"
      [] node.kind = "For" -> "for item in request:"
      [] node.kind = "AsyncFor" -> "async for item in request:"
      [] node.kind = "With" -> "with request:"
      [] node.kind = "AsyncWith" -> "async with request:"
      [] node.kind = "Try" -> "try:"
      [] node.kind = "ExceptHandler" -> "except Error:"
      [] node.kind = "ClassDef" -> "class Service:"
      [] node.kind = "Assign" ->
            (CASE node.children[2].kind = "Constant" ->
                      "limit = " \o ToString(node.children[2].value)
               [] node.children[2].kind = "UnaryOp" ->
                      "limit = -" \o ToString(node.children[2].children[1].value)
               [] node.children[2].kind = "BinOp" -> "count = count + 1"
               [] OTHER -> "value = compute(request)")
      [] node.kind = "Return" -> "return request if ready else fallback"
      [] node.kind = "FunctionDef" -> DefText("def ", node.name.text, node.args)
      [] node.kind = "AsyncFunctionDef" ->
            DefText("async def ", node.name.text, node.args)
      [] node.kind = "Comment" -> "# step"
      [] node.kind = "Blank" -> ""
      [] OTHER -> "done()"

\* every node of an expression is on the line of its statement
RECURSIVE OnLine(_, _)
OnLine(node, line) ==
    [node EXCEPT !.lineno = line,
                 !.children = [k \in 1..Len(node.children) |->
                                  OnLine(node.children[k], line)]]

\* the lines of a statement and of the statements below it; an except clause
\* is indented as its try statement, an elif clause as its if statement, a
\* body one level deeper
RECURSIVE Unparse(_, _)
Unparse(node, depth) ==
    IF node.kind \in StatementKinds
    THEN <<Src(depth, SourceText(node))>>
         \o Concat([k \in 1..Len(node.children) |->
                       Unparse(node.children[k],
                               IF node.children[k].kind \in {"ExceptHandler", ElifClause}
                               THEN depth ELSE depth + 1)])
    ELSE <<>>

\* lineno of every node: a statement is on the line after the lines of the
\* statements before it
RECURSIVE Place(_, _)
Place(node, line) ==
    LET LinesBefore(k) ==
            Len(Concat([j \in 1..(k - 1) |-> Unparse(node.children[j], 0)]))
    IN  [node EXCEPT
            !.lineno = line,
            !.children =
                [k \in 1..Len(node.children) |->
                    IF node.children[k].kind \in StatementKinds
                    THEN Place(node.children[k], line + 1 + LinesBefore(k))
                    ELSE OnLine(node.children[k], line)]]

\* the tree without the entries that stand for blank and comment lines, an
\* elif clause being the If node in the orelse of its if statement
RECURSIVE Prune(_)
Prune(node) ==
    LET kept == SelectSeq(node.children, LAMBDA c : c.kind \notin LayoutOnly)
    IN  [node EXCEPT !.kind = IF @ = ElifClause THEN "If" ELSE @,
                     !.children = [k \in 1..Len(kept) |-> Prune(kept[k])]]

\* a module with the given top-level statements: the lines of its text, the
\* text ending with a newline, and the tree ast.parse makes of it
Module(statements) ==
    LET Parsed(placed) ==
            [lines |-> Concat([k \in 1..Len(placed.children) |->
                                  Unparse(placed.children[k], 0)]) \o <<"">>,
             tree |-> Prune(placed)]
    IN  Parsed(Place(Node("Module", 0, statements), 0))

(***************************************************************************)
(* The modules SpecFunc analyzes                                           *)
(***************************************************************************)
Done == Node("Expr", 0, <<CallExpr>>)

Repeat(statement, n) == [k \in 1..n |-> statement]

\* def handler(request): with n assignments, `extra` after the first one
LongFunction(n, extra) ==
    Module(<<FunctionDef(FuncName("handler"), <<"request">>, 0,
                         <<Compute>> \o extra \o Repeat(Compute, n - 1)),
             Blank, Done>>)

LongFunctions ==
    {LongFunction(n, extra) :
        n \in 1..MaxFuncLines, extra \in {<<>>, <<Blank>>, <<Comment>>}}

\* n if statements one after the other, each test a chain of `operands` names
SequentialIfs(n, operands) ==
    LET test == IF operands = 1 THEN NameNode(0) ELSE BoolOp(operands, 0)
        body == IF n = 0 THEN <<PassStmt>> ELSE Repeat(If(test, <<Increment>>), n)
    IN  Module(<<FunctionDef(FuncName("handler"), <<"request">>, 0, body), Done>>)

IfFunctions == {SequentialIfs(n, operands) : n \in 0..MaxIfs, operands \in 1..3}

CompoundKinds ==
    {"If", "While", "For", "AsyncFor", "With", "AsyncWith", "Try", "Except",
     "FunctionDef", "AsyncFunctionDef", "ClassDef"}

Leaves ==
    {PassStmt, Compute, Increment, ReturnIfExp, Limit(0), Limit(1), Limit(2),
     Limit(42), NegativeLimit(1), NegativeLimit(2)}

\* the compound statements of `kinds`, each in the body of the one before
RECURSIVE Nest(_, _)
Nest(kinds, leaf) ==
    IF kinds = <<>> THEN <<leaf>>
    ELSE <<Compound(Head(kinds), Nest(Tail(kinds), leaf))>>

Chain(kinds, leaf) ==
    Module(<<FunctionDef(FuncName("handler"), <<>>, 0, Nest(kinds, leaf)), Done>>)

ChainFunctions ==
    {Chain(kinds, leaf) :
        kinds \in UNION {[1..n -> CompoundKinds] : n \in 0..MaxNest},
        leaf \in Leaves}

\* a function or a method of a class with the given parameter list
Signature(name, args, method) ==
    LET func == FunctionDef(FuncName(name), args, 0, <<Compute>>)
    IN  Module(IF method THEN <<Node("ClassDef", 0, <<func>>), Done>>
               ELSE <<func, Done>>)

SignatureFunctions ==
    {Signature(name, args, method) :
        name \in DefNames, args \in ArgLists, method \in BOOLEAN}

\* two functions: one after the other, the second inside the first, or as
\* methods of two classes; the first one branches, the second does not
Pair(first, second, arrangement) ==
    LET branching == <<If(NameNode(0), <<Increment>>), If(NameNode(0), <<Limit(2)>>)>>
        inner == FunctionDef(FuncName(second), <<"self">>, 0, <<Compute>>)
    IN  CASE arrangement = "sequence" ->
                Module(<<FunctionDef(FuncName(first), <<>>, 0, branching), inner, Done>>)
          [] arrangement = "nested" ->
                Module(<<FunctionDef(FuncName(first), <<>>, 0, <<inner>> \o branching),
                         FunctionDef(FuncName("helper"), <<"request">>, 0, branching),
                         Done>>)
          [] OTHER ->
                Module(<<Node("ClassDef", 0,
                              <<FunctionDef(FuncName(first), <<"self">>, 0, branching)>>),
                         Node("ClassDef", 0, <<inner>>), Done>>)

PairFunctions ==
    {Pair(first, second, arrangement) :
        first \in DefNames, second \in DefNames,
        arrangement \in {"sequence", "nested", "methods"}}

\* if request: ... followed by n elif clauses, then a return
RECURSIVE ElifClauses(_)
ElifClauses(n) ==
    IF n = 0 THEN <<>>
    ELSE <<Node(ElifClause, 0, <<NameNode(0), Increment>> \o ElifClauses(n - 1))>>

ElifChain(n, leaf) ==
    Module(<<FunctionDef(FuncName("handler"), <<"request">>, 0,
                         <<If(NameNode(0), <<leaf>> \o ElifClauses(n)), ReturnIfExp>>),
             Done>>)

ElifFunctions == {ElifChain(n, leaf) : n \in 0..MaxElifs, leaf \in {PassStmt, Increment}}

ModuleFamilies == {"long", "ifs", "chain", "signature", "pair", "elif"}

ModulesOf(family) ==
    CASE family = "long" -> LongFunctions
      [] family = "ifs" -> IfFunctions
      [] family = "chain" -> ChainFunctions
      [] family = "signature" -> SignatureFunctions
      [] family = "elif" -> ElifFunctions
      [] OTHER -> PairFunctions

(***************************************************************************)
(* SpecFunc: analyze_file on one Python module, with a new analyzer.       *)
(***************************************************************************)
SourcePath == <<"/", "home", "proj", "module.py">>

FuncInit ==
    /\ ToolInit
    /\ StateUnused
    /\ DupUnused
    /\ AsyncUnused
    /\ \E family \in ModuleFamilies : source \in ModulesOf(family)
    /\ ast_issues = <<>>
    /\ ast_metrics = EmptyDict
    /\ ast_pc = "parsed"
    /\ IndexUnused

AnalyzeSource ==
    /\ ast_pc = "parsed"
    /\ LET a == CodeAnalyzer__init__(EmptyStore)
       IN  \E r \in {analyze_file(a.store, a.self,
                                  ParsedFile(SourcePath, source.lines, source.tree))} :
           /\ ast_issues' = r.store.lists[r.ret.issues]
           /\ ast_metrics' = IF IsError(r.ret.metrics) THEN EmptyDict
                             ELSE r.store.dicts[r.ret.metrics.function_metrics]
    /\ ast_pc' = "analyzed"
    /\ UNCHANGED <<source, index_args, index, toolVars, dupVars, asyncVars, stateVars>>

FuncNext == AnalyzeSource

SpecFunc == FuncInit /\ [][FuncNext]_vars

(***************************************************************************)
(* SpecIndex: _calculate_maintainability_index on the arguments a function *)
(* can have; loc = 0 is what the method is handed for a function without   *)
(* lines.                                                                  *)
(***************************************************************************)
IndexInit ==
    /\ ToolInit
    /\ StateUnused
    /\ DupUnused
    /\ AsyncUnused
    /\ source = [lines |-> <<"">>, tree |-> [kind |-> "Module", children |-> <<>>]]
    /\ ast_issues = <<>>
    /\ ast_metrics = EmptyDict
    /\ ast_pc = "unused"
    /\ index_args \in [loc : 0..MaxLoc, complexity : 1..MaxComplexity,
                        cognitive : {0, MaxComplexity}]
    /\ index = <<>>

CalculateIndex ==
    /\ index = <<>>
    /\ index' = <<_calculate_maintainability_index(
                     index_args.loc, index_args.complexity, index_args.cognitive)>>
    /\ UNCHANGED <<index_args, source, ast_issues, ast_metrics, ast_pc,
                   toolVars, dupVars, asyncVars, stateVars>>

IndexNext == CalculateIndex

SpecIndex == IndexInit /\ [][IndexNext]_vars

(***************************************************************************)
(* Claims about interleaved callers (SpecAsync)                            *)
(***************************************************************************)
\* what analyze_file returns for a file when nothing else runs
Alone(f) ==
    LET a == CodeAnalyzer__init__(EmptyStore)
        r == analyze_file(a.store, a.self, f)
    IN  [issues |-> r.store.lists[r.ret.issues],
         keys |-> r.ret.metrics.keys,
         function_metrics |-> IF r.ret.metrics.function_metrics = 0 THEN EmptyDict
                              ELSE r.store.dicts[r.ret.metrics.function_metrics]]

HasResult(t) == tasks[t].pc \in {"returned", "done"}

\* C3: with interleaved asynchronous callers, a task inside analyze_file
\* keeps the event loop until the call returns, no two tasks use the same
\* analyzer, and every returned result is exactly the findings of the
\* task's own file.
C3_CallersDoNotInterfere ==
    /\ \A t \in DOMAIN tasks : tasks[t].pc = "analyzing" => running = t
    /\ \A t, u \in DOMAIN tasks :
          (t # u /\ tasks[t].analyzer # 0 /\ tasks[u].analyzer # 0)
              => tasks[t].analyzer # tasks[u].analyzer
    /\ \A t \in DOMAIN tasks :
          HasResult(t) =>
              /\ store.lists[tasks[t].ret.issues] = Alone(tasks[t].file).issues
              /\ tasks[t].ret.metrics.keys = Alone(tasks[t].file).keys
              /\ tasks[t].ret.metrics.function_metrics # 0 =>
                    store.dicts[tasks[t].ret.metrics.function_metrics]
                        = Alone(tasks[t].file).function_metrics

\* two tasks on different files, one resumed while the other was suspended at
\* its await, both returned with issues
C3_Witness ==
    \E t, u \in DOMAIN tasks :
        /\ t # u
        /\ tasks[t].pc = "done" /\ tasks[u].pc = "done"
        /\ tasks[t].overlapped
        /\ tasks[t].file # tasks[u].file
        /\ store.lists[tasks[t].ret.issues] # <<>>
        /\ store.lists[tasks[u].ret.issues] # <<>>

(***************************************************************************)
(* Claims about the duplication detector (SpecDup)                         *)
(***************************************************************************)
\* 1-based positions a < b of two identical 6-line blocks of lines that are
\* neither blank nor comment-only, with at least one line between them
TwoBlocksAt(lines, a, b) ==
    /\ a >= 1 /\ b >= a + 7 /\ b + 5 <= Len(lines)
    /\ \A k \in 0..5 : lines[a + k] = lines[b + k] /\ ~IsTrivialLine(lines[a + k])

\* no two 5-line windows are equal except those of the two blocks
NoOtherRepetition(lines, a, b) ==
    \A i, j \in 1..(Len(lines) - 4) :
        (i < j /\ SubSeq(lines, i, i + 4) = SubSeq(lines, j, j + 4))
            => (<<i, j>> \in {<<a, b>>, <<a + 1, b + 1>>})

IsTwoBlockContent(lines, a, b) ==
    TwoBlocksAt(lines, a, b) /\ NoOtherRepetition(lines, a, b)

IsDuplicationMajor(issue) ==
    issue.type = "duplication" /\ issue.severity = "major"

\* C9 (as stated): a file with two identical 6-line non-comment blocks
\* separated by other code, and no other repetition, gets exactly one
\* duplication/major issue, and that issue references both line ranges.
C9_ExactlyOneIssue ==
    dup_pc = "scanned" =>
        \A a, b \in 1..Len(content) :
            IsTwoBlockContent(content, a, b) =>
                /\ Len(dup_issues) = 1
                /\ IsDuplicationMajor(dup_issues[1])
                /\ dup_issues[1].ranges[1] = a
                /\ dup_issues[1].ranges[3] = b

\* C9 (amended): such a file gets one duplication/major issue per 5-line
\* window of the first block whose twin in the second block starts before
\* index len(lines) - 5: two issues when a line follows the second block,
\* one when the second block ends the file; the k-th issue references the
\* 5-line ranges [a+k-1, a+k+3] and [b+k-1, b+k+3].
C9_OneIssuePerWindow ==
    dup_pc = "scanned" =>
        \A a, b \in 1..Len(content) :
            IsTwoBlockContent(content, a, b) =>
                /\ Len(dup_issues) = (IF b + 5 < Len(content) THEN 2 ELSE 1)
                /\ \A k \in 1..Len(dup_issues) :
                      /\ IsDuplicationMajor(dup_issues[k])
                      /\ dup_issues[k].line_number = a + k - 1
                      /\ dup_issues[k].ranges
                            = <<a + k - 1, a + k + 3, b + k - 1, b + k + 3>>

\* a scanned two-block file on which both windows of the block were reported
C9_Witness ==
    /\ dup_pc = "scanned"
    /\ \E a, b \in 1..Len(content) : IsTwoBlockContent(content, a, b)
    /\ Len(dup_issues) = 2

\* the 0-based start indices j > i + 5, j <= len(lines) - 5, of windows equal
\* to the window at i
LaterTwins(lines, i) ==
    {j \in (i + 6)..(Len(lines) - 5) :
        SubSeq(lines, j + 1, j + 5) = SubSeq(lines, i + 1, i + 5)}

SetMin(S) == CHOOSE m \in S : \A x \in S : m <= x

\* C10: for every window start i (0 <= i <= len(lines) - 5) an issue with
\* line_number i+1 is emitted iff the window is not all blank/comment lines
\* and an identical window starts at some j > i+5 (j <= len(lines) - 5); at
\* most one issue per i, referencing [i+1,i+5] and [j+1,j+5], j the smallest.
C10_IssueIffLaterTwin ==
    dup_pc = "scanned" =>
        \A i \in 0..(Len(content) - 5) :
            LET hits == {k \in 1..Len(dup_issues) :
                            /\ dup_issues[k].type = "duplication"
                            /\ dup_issues[k].line_number = i + 1}
                twins == LaterTwins(content, i)
                expected == /\ ~IsTrivialWindow(SubSeq(content, i + 1, i + 5))
                            /\ twins # {}
            IN  /\ (hits # {}) <=> expected
                /\ Cardinality(hits) <= 1
                /\ \A k \in hits :
                      dup_issues[k].ranges
                        = <<i + 1, i + 5, SetMin(twins) + 1, SetMin(twins) + 5>>

RECURSIVE SumValues(_)
SumValues(d) ==
    IF DOMAIN d = {} THEN 0
    ELSE LET k == CHOOSE x \in DOMAIN d : TRUE
         IN  d[k] + SumValues([x \in DOMAIN d \ {k} |-> d[x]])

Succeeded(c) == "error" \notin c.ret.metrics.keys

\* C1: in every successful analyze_file result the values of
\* issues_by_severity sum to the length of the returned issue list, and every
\* severity present in the list is counted with its number of issues.
C1_SeverityCountsSumToIssues ==
    \A k \in 1..Len(calls) :
        LET c == calls[k]
            by_severity == c.ret.metrics.issues_by_severity
        IN  Succeeded(c) =>
              /\ SumValues(by_severity) = Len(c.issues_then)
              /\ \A sev \in Severities :
                    CountSeverity(c.issues_then, sev) > 0 =>
                        /\ sev \in DOMAIN by_severity
                        /\ by_severity[sev] = CountSeverity(c.issues_then, sev)

\* a successful result with three severities, one of them met several times
C1_Witness ==
    \E k \in 1..Len(calls) :
        /\ Succeeded(calls[k])
        /\ CountSeverity(calls[k].issues_then, "critical") >= 1
        /\ CountSeverity(calls[k].issues_then, "major") >= 2
        /\ CountSeverity(calls[k].issues_then, "minor") >= 2

FunctionNames(f) == {f.funcs[k].name.text : k \in 1..Len(f.funcs)}

\* C2: on one reused CodeAnalyzer, the issue list and function_metrics each
\* call returned hold only findings of that call's file, and what an earlier
\* call returned is not modified by a later call.
C2_ResultsAreNotShared ==
    \A k \in 1..Len(calls) :
        LET c == calls[k]
            issues == store.lists[c.ret.issues]
        IN  /\ issues = c.issues_then
            /\ \A n \in 1..Len(issues) : issues[n].file_path = c.file.path
            /\ Succeeded(c) =>
                  /\ store.dicts[c.ret.metrics.function_metrics] = c.metrics_then
                  /\ DOMAIN c.metrics_then \subseteq FunctionNames(c.file)

\* two successive calls of one analyzer on different files, both with issues
\* and function metrics
C2_Witness ==
    /\ scan.mode = "directory"
    /\ \E k \in 1..(Len(calls) - 1) :
          /\ calls[k].file.path # calls[k + 1].file.path
          /\ calls[k].issues_then # <<>> /\ calls[k + 1].issues_then # <<>>
          /\ DOMAIN calls[k].metrics_then # {}
          /\ DOMAIN calls[k + 1].metrics_then # {}

\* the four failures the claim names
FailsToLoad(f) ==
    \/ ~f.exists
    \/ f.is_dir
    \/ ~f.readable
    \/ Lower(f.suffix) \notin {".py", ".js", ".ts", ".jsx", ".tsx"}

\* C4: for a missing file, an unreadable path, a directory path or an
\* unsupported extension analyze_file returns an empty issue list and a
\* metrics mapping with an 'error' entry and no function metrics; every error
\* result has an empty issue list, also when issues were accumulated before
\* the failure.
C4_ErrorResultsAreEmpty ==
    \A k \in 1..Len(calls) :
        LET c == calls[k] IN
        /\ FailsToLoad(c.file) =>
              /\ "error" \in c.ret.metrics.keys
              /\ "function_metrics" \notin c.ret.metrics.keys
              /\ c.issues_then = <<>>
        /\ ~Succeeded(c) =>
              /\ c.issues_then = <<>>
              /\ store.lists[c.ret.issues] = <<>>
              /\ "function_metrics" \notin c.ret.metrics.keys

\* one run with an error result for a file that failed to load and an error
\* result returned while self.issues held issues
C4_Witness ==
    /\ \E k \in 1..Len(calls) : FailsToLoad(calls[k].file) /\ ~Succeeded(calls[k])
    /\ \E k \in 1..Len(calls) :
          /\ ~FailsToLoad(calls[k].file)
          /\ ~Succeeded(calls[k])
          /\ calls[k].accumulated # <<>>

UnparsablePython(f) ==
    /\ f.exists /\ ~f.is_dir /\ f.readable
    /\ Lower(f.suffix) = ".py"
    /\ ~f.syntax_ok

\* C5: a Python file that fails to parse gives a result with exactly one
\* issue, critical / syntax with an empty function_name, and an empty
\* function_metrics.
C5_SyntaxErrorIsOneIssue ==
    \A k \in 1..Len(calls) :
        LET c == calls[k] IN
        UnparsablePython(c.file) =>
            /\ Succeeded(c)
            /\ Len(c.issues_then) = 1
            /\ c.issues_then[1].severity = "critical"
            /\ c.issues_then[1].type = "syntax"
            /\ c.issues_then[1].function_name = ""
            /\ c.metrics_then = EmptyDict

\* an unparsable file analyzed right after a file that left issues and
\* function metrics behind
C5_Witness ==
    \E k \in 2..Len(calls) :
        /\ UnparsablePython(calls[k].file)
        /\ calls[k - 1].issues_then # <<>>
        /\ DOMAIN calls[k - 1].metrics_then # {}

\* C25: after the syntax error of a Python file the analysis of the file
\* stops with the syntax issue: no duplication and no import issue is added
\* and no metrics, neither function metrics nor file metrics, are computed
\* for the file.
C25_NoMetricsAfterSyntaxError ==
    \A k \in 1..Len(calls) :
        LET c == calls[k] IN
        UnparsablePython(c.file) =>
            /\ c.issues_then = <<SyntaxIssue(c.file)>>
            /\ c.metrics_then = EmptyDict
            /\ "file_metrics" \notin c.ret.metrics.keys

\* a file the heuristic scanner analyzes
IsHeuristicFile(f) == Lower(f.suffix) \in {".js", ".ts", ".jsx", ".tsx"}

\* C26: for a .js/.ts/.jsx/.tsx file function_metrics is empty and every
\* issue is of type length, complexity or duplication; find_complex_functions
\* lists no function of such a file.
C26_HeuristicFilesHaveNoFunctionMetrics ==
    /\ \A k \in 1..Len(calls) :
          LET c == calls[k] IN
          (IsHeuristicFile(c.file) /\ Succeeded(c)) =>
              /\ c.metrics_then = EmptyDict
              /\ \A n \in 1..Len(c.issues_then) :
                    c.issues_then[n].type \in {"length", "complexity", "duplication"}
    /\ \A n \in 1..Len(collected) :
          tool = "find_complex_functions" =>
              \A k \in 1..Len(calls) :
                  IsHeuristicFile(calls[k].file) =>
                      collected[n].item.file # calls[k].file.path
    /\ report.kind = "complex_functions" =>
          \A n \in 1..Len(report.complex_functions) :
              \A k \in 1..Len(calls) :
                  IsHeuristicFile(calls[k].file) =>
                      report.complex_functions[n].item.file # calls[k].file.path

\* find_complex_functions has listed a function of a Python file and then
\* analyzed a JavaScript file whose function got a complexity issue
C26_Witness ==
    /\ tool = "find_complex_functions"
    /\ pc = "done"
    /\ report.kind = "complex_functions"
    /\ \E k \in 2..Len(calls) :
          /\ IsHeuristicFile(calls[k].file)
          /\ Succeeded(calls[k])
          /\ ~IsHeuristicFile(calls[k - 1].file)
          /\ DOMAIN calls[k - 1].metrics_then # {}
          /\ \E n \in 1..Len(calls[k].issues_then) :
                /\ calls[k].issues_then[n].type = "complexity"
                /\ calls[k].issues_then[n].metric_value >= min_complexity

InDirectoryReview == tool = "review_code" /\ scan.mode = "directory"

SucceededCalls == SelectSeq(calls, Succeeded)

RECURSIVE IssuesOf(_)
IssuesOf(cs) == IF cs = <<>> THEN <<>> ELSE Head(cs).issues_then \o IssuesOf(Tail(cs))

\* C6: in directory review a failure on one file never aborts the batch:
\* every file of the list is analyzed, in order; a failed file adds no issue
\* and no file summary; the analyzed-file count is the number of files
\* analyzed without error; the found-file count includes the failed files.
C6_FailureDoesNotAbortBatch ==
    InDirectoryReview =>
        /\ Len(calls) = idx
        /\ \A k \in 1..idx : calls[k].file = files[k]
        /\ (pc = "done" /\ files # <<>>) => idx = Len(files)
        /\ Len(file_summaries) = Len(SucceededCalls)
        /\ \A k \in 1..Len(file_summaries) :
              /\ file_summaries[k].path = SucceededCalls[k].file.path
              /\ file_summaries[k].total_issues = Len(SucceededCalls[k].issues_then)
        /\ all_issues = IssuesOf(SucceededCalls)
        /\ report.kind = "directory_review" =>
              report.total_files = Len(SucceededCalls)
        /\ found >= Len(calls)
        /\ (pc = "done" /\ truncated_message # None) =>
              truncated_message >= Len(calls)

\* a finished directory review in which a failed file is followed by a file
\* analyzed with issues
C6_Witness ==
    /\ InDirectoryReview /\ pc = "done"
    /\ report.kind = "directory_review"
    /\ \E k \in 1..(Len(calls) - 1) :
          /\ ~Succeeded(calls[k])
          /\ Succeeded(calls[k + 1])
          /\ calls[k + 1].issues_then # <<>>

\* C7: when the scan finds more than 20 files exactly 20 are analyzed and
\* the truncation notice reports the number of files found before capping;
\* with 20 or fewer all are analyzed and no notice is added.
C7_NoticeReportsTrueTotal ==
    (InDirectoryReview /\ pc = "done" /\ found > 0) =>
        IF found > 20
        THEN Len(calls) = 20 /\ truncated_message = found
        ELSE Len(calls) = found /\ truncated_message = None

\* the components of a path below the scanned root
BelowRoot(path) == SubSeq(path, Len(scan.root) + 1, Len(path))

IgnoredNames ==
    {".git", ".vscode", "node_modules", "__pycache__", ".pytest_cache",
     "build", "dist"}

\* C8: no file analyzed by a directory scan of review_code,
\* find_complex_functions or find_code_duplicates has a path component, at
\* any depth below the scanned root, equal to an ignored directory name.
C8_IgnoredDirectoriesAreSkipped ==
    scan.mode = "directory" =>
        \A k \in 1..Len(calls) :
            \A n \in 1..Len(BelowRoot(calls[k].file.path)) :
                BelowRoot(calls[k].file.path)[n] \notin IgnoredNames

\* a finished directory scan whose tree holds a code file two levels below an
\* ignored directory, and which analyzed another file
C8_Witness ==
    /\ scan.mode = "directory" /\ pc = "done"
    /\ Len(calls) >= 1
    /\ \E k \in 1..Len(scan.tree) :
          /\ Len(scan.tree[k].path) = 3
          /\ scan.tree[k].path[1] \in IgnoredNames
          /\ scan.tree[k].path[2] \notin IgnoredNames
          /\ scan.tree[k].suffix \in {".py", ".js"}

\* C30: a directory review that scanned files returns the 'no issues found
\* across all code files' report exactly when the issue lists of the files
\* analyzed without error are all empty, however many files failed, also
\* when every file failed.
C30_NoIssuesReportIffNoIssueCollected ==
    (InDirectoryReview /\ pc = "done" /\ files # <<>>) =>
        /\ report.kind \in {"no_issues", "directory_review"}
        /\ report.kind = "no_issues" <=>
               \A k \in 1..Len(calls) :
                   Succeeded(calls[k]) => calls[k].issues_then = <<>>

\* a finished review of a directory of two files that both failed: the
\* report says that no issue was found
C30_Witness ==
    /\ InDirectoryReview /\ pc = "done"
    /\ Len(calls) = 2
    /\ \A k \in 1..Len(calls) : ~Succeeded(calls[k])
    /\ report.kind = "no_issues"

\* the scanned root lies at or beneath a directory with an ignored name
RootIsIgnored == \E n \in 1..Len(scan.root) : scan.root[n] \in IgnoredNames

\* C27: the ignore filter of a directory scan tests every component of the
\* full path of a file, those of the scanned root and its ancestors
\* included: no analyzed file has an ignored name anywhere in its full path,
\* and a scan whose root lies at or beneath an ignored directory analyzes
\* no file.
C27_FilterTestsTheFullPath ==
    scan.mode = "directory" =>
        /\ \A k \in 1..Len(calls) :
              /\ Len(calls[k].file.path) >= Len(scan.root)
              /\ SubSeq(calls[k].file.path, 1, Len(scan.root)) = scan.root
              /\ \A n \in 1..Len(calls[k].file.path) :
                    calls[k].file.path[n] \notin IgnoredNames
        /\ RootIsIgnored =>
              /\ files = <<>>
              /\ found = 0
              /\ calls = <<>>
              /\ (tool = "review_code" /\ pc = "done") => report.kind = "no_code_files"

\* a finished scan of .../build/proj whose tree holds code files outside any
\* ignored directory of the tree
C27_Witness ==
    /\ scan.mode = "directory" /\ pc = "done"
    /\ RootIsIgnored
    /\ \E k \in 1..Len(scan.tree) :
          /\ scan.tree[k].suffix \in {".py", ".js"}
          /\ scan.tree[k].exists
          /\ \A n \in 1..Len(scan.tree[k].path) :
                scan.tree[k].path[n] \notin IgnoredNames
    /\ calls = <<>>

(***************************************************************************)
(* Claims about the analysis of one Python module (SpecFunc)               *)
(***************************************************************************)
Analyzed == ast_pc = "analyzed"

\* the function definitions the analyzer visits, in the order it visits them
AnalyzedFunctions == Functions(source.tree)

\* the linenos of the nodes below a node
Linenos(node) ==
    UNION {{nodes[k].lineno : k \in 1..Len(nodes)} : nodes \in {walk(node)}}

\* the last line of a function: the line before the first statement after
\* its last statement, comment lines at the end of its body included
LastLine(func_node) ==
    LET Before(last, after) ==
            IF after = {} THEN Len(source.lines)
            ELSE (CHOOSE next \in after : \A lineno \in after : next <= lineno) - 1
        After(last) == Before(last, {lineno \in Linenos(source.tree) : lineno > last})
    IN  After(CHOOSE last \in Linenos(func_node) :
                  \A lineno \in Linenos(func_node) : lineno <= last)

\* the lines of the text from the def line to the last line of the function
\* that are not blank
NonBlankLines(func_node) ==
    Cardinality({k \in func_node.lineno..LastLine(func_node) :
                    Strip(source.lines[k]) # ""})

\* the issues of one check about one function
IssuesAbout(func_node, text) ==
    SelectSeq(ast_issues,
              LAMBDA issue : /\ issue.function_name = func_node.name.text
                             /\ issue.line_number = func_node.lineno
                             /\ issue.message.text = text)

\* C12: a function of L non-blank lines gets no length issue when L <= T,
\* exactly one major length issue when T < L <= 2T and exactly one critical
\* length issue when L > 2T, T the function-length threshold (50); the
\* issue's metric_value is L.
C12_LengthIssueByLineCount ==
    Analyzed =>
        \A k \in 1..Len(AnalyzedFunctions) :
            LET Holds(L, T, issues) ==
                    /\ L <= T => issues = <<>>
                    /\ L > T =>
                          /\ Len(issues) = 1
                          /\ issues[1].type = "length"
                          /\ issues[1].severity = (IF L <= 2 * T THEN "major"
                                                   ELSE "critical")
                          /\ issues[1].metric_value = L
            IN  Holds(NonBlankLines(AnalyzedFunctions[k]),
                      thresholds.max_function_length,
                      IssuesAbout(AnalyzedFunctions[k], "is too long"))

\* a function of exactly 2T + 1 = 101 non-blank lines, flagged critical
C12_Witness ==
    /\ Analyzed
    /\ \E k \in 1..Len(AnalyzedFunctions) :
          /\ NonBlankLines(AnalyzedFunctions[k]) = 2 * thresholds.max_function_length + 1
          /\ \E n \in 1..Len(ast_issues) :
                /\ ast_issues[n].type = "length"
                /\ ast_issues[n].severity = "critical"
                /\ ast_issues[n].metric_value = 101

\* the nodes of a function whose kind is in `kinds`, as positions in walk order
NodesOfKind(func_node, kinds) ==
    UNION {{k \in 1..Len(nodes) : nodes[k].kind \in kinds} :
              nodes \in {walk(func_node)}}

\* conditional, loop, exception-handler and with nodes of a function
BranchingKinds ==
    {"If", "While", "For", "AsyncFor", "ExceptHandler", "With", "AsyncWith"}

\* the operands after the first one of every and/or chain of a function
ExtraOperands(func_node) ==
    UNION {{<<k, operand>> : operand \in 2..Len(nodes[k].children)} :
              k \in NodesOfKind(func_node, {"BoolOp"}),
              nodes \in {walk(func_node)}}

\* 1 + one per branching node + (operands - 1) per and/or chain
PathCount(func_node) ==
    1 + Cardinality(NodesOfKind(func_node, BranchingKinds))
      + Cardinality(ExtraOperands(func_node))

\* the body is n if statements with plain tests, none holding a compound
\* statement
IsSequentialIfs(func_node, n) ==
    /\ Len(func_node.children) = n + 1
    /\ \A k \in 2..(n + 1) :
          /\ func_node.children[k].kind = "If"
          /\ NodesOfKind(func_node.children[k],
                         BranchingKinds \cup {"BoolOp", "Try", "FunctionDef",
                                              "AsyncFunctionDef", "ClassDef"}) = {1}

\* C13: a function whose cyclomatic complexity C exceeds the threshold T (10)
\* gets exactly one cyclomatic-complexity issue, major when C <= 1.5 T and
\* critical when C > 1.5 T, and none when C <= T; a function of 12 sequential
\* top-level if statements without nesting has cyclomatic_complexity 13 and
\* nesting_depth 1 and is flagged major.
C13_ComplexityIssueByPathCount ==
    Analyzed =>
        \A k \in 1..Len(AnalyzedFunctions) :
            LET Holds(func_node, C, T, issues) ==
                    /\ C <= T => issues = <<>>
                    /\ C > T =>
                          /\ Len(issues) = 1
                          /\ issues[1].type = "complexity"
                          /\ issues[1].severity = (IF 2 * C <= 3 * T THEN "major"
                                                   ELSE "critical")
                    /\ IsSequentialIfs(func_node, 12) =>
                          /\ ast_metrics[func_node.name.text].cyclomatic_complexity = 13
                          /\ ast_metrics[func_node.name.text].nesting_depth = 1
                          /\ Len(issues) = 1 /\ issues[1].severity = "major"
            IN  Holds(AnalyzedFunctions[k], PathCount(AnalyzedFunctions[k]),
                      thresholds.max_complexity,
                      IssuesAbout(AnalyzedFunctions[k], "has high cyclomatic complexity"))

\* the function of 12 sequential if statements, analyzed and flagged major
C13_Witness ==
    /\ Analyzed
    /\ \E k \in 1..Len(AnalyzedFunctions) :
          /\ IsSequentialIfs(AnalyzedFunctions[k], 12)
          /\ \E n \in 1..Len(ast_issues) :
                /\ ast_issues[n].message = Message("has high cyclomatic complexity", 13)
                /\ ast_issues[n].severity = "major"

\* the function whose metrics function_metrics holds under its name: the last
\* one of that name the analyzer visits
IsLastOfName(k) ==
    \A later \in (k + 1)..Len(AnalyzedFunctions) :
        AnalyzedFunctions[later].name # AnalyzedFunctions[k].name

\* C14: cyclomatic_complexity of a function is 1 + the number of its
\* conditional, loop, exception-handler and with nodes + the sum over its
\* and/or chains of (operand count - 1); it is at least 1, and exactly 1 for
\* a function without branching construct and without and/or chain.
C14_CyclomaticComplexityIsPathCount ==
    Analyzed =>
        \A k \in 1..Len(AnalyzedFunctions) :
            IsLastOfName(k) =>
                LET Holds(func_node, complexity) ==
                        /\ complexity = PathCount(func_node)
                        /\ complexity >= 1
                        /\ (NodesOfKind(func_node, BranchingKinds \cup {"BoolOp"}) = {})
                              => complexity = 1
                IN  Holds(AnalyzedFunctions[k],
                          ast_metrics[AnalyzedFunctions[k].name.text].cyclomatic_complexity)

\* a function with if statements whose tests are chains of three operands
C14_Witness ==
    /\ Analyzed
    /\ \E k \in 1..Len(AnalyzedFunctions) :
          /\ IsLastOfName(k)
          /\ NodesOfKind(AnalyzedFunctions[k], {"If"}) # {}
          /\ \E pair \in ExtraOperands(AnalyzedFunctions[k]) : pair[2] = 3
          /\ ast_metrics[AnalyzedFunctions[k].name.text].cyclomatic_complexity
                = PathCount(AnalyzedFunctions[k])
          /\ PathCount(AnalyzedFunctions[k]) > 3

\* every function definition of the file, nested and async ones included
FunctionsOfFile ==
    SelectSeq(walk(source.tree),
              LAMBDA node : node.kind \in {"FunctionDef", "AsyncFunctionDef"})

\* the numeric literals inside function bodies, as <<value, lineno>>; the
\* generated code has at most one literal on a line
LiteralsInFunctions ==
    UNION {{constants[n] : n \in 1..Len(constants)} :
              constants \in {NumericConstants(walk(FunctionsOfFile[k])) :
                                 k \in 1..Len(FunctionsOfFile)}}

\* the magic-number issues about the literal on one line
MagicNumberIssuesAt(lineno) ==
    SelectSeq(ast_issues,
              LAMBDA issue : /\ issue.message.text = "Magic number found"
                             /\ issue.line_number = lineno)

\* C15: every numeric literal with absolute value above 1 inside a function
\* body gives exactly one minor smell issue, in every function of the file
\* including nested ones; a literal 0, 1 or -1 gives none.
C15_OneIssuePerMagicNumber ==
    Analyzed =>
        \A literal \in LiteralsInFunctions :
            LET Holds(value, issues) ==
                    IF Abs(value) > 1
                    THEN /\ Len(issues) = 1
                         /\ issues[1].severity = "minor"
                         /\ issues[1].type = "smell"
                    ELSE issues = <<>>
            IN  Holds(literal[1], MagicNumberIssuesAt(literal[2]))

\* C16: every magic-number issue carries the literal it is about as its
\* metric_value, an integer outside {-1, 0, 1}.
C16_MagicNumberIssueCarriesLiteral ==
    Analyzed =>
        \A n \in 1..Len(ast_issues) :
            ast_issues[n].message.text = "Magic number found" =>
                /\ ast_issues[n].metric_value = ast_issues[n].message.value
                /\ ast_issues[n].metric_value \in Int \ {-1, 0, 1}

\* the class bodies of the file
ClassesOfFile == SelectSeq(walk(source.tree), LAMBDA node : node.kind = "ClassDef")

\* a function defined directly in a class body, with self as first parameter
HasReceiver(func_node) ==
    /\ func_node.args # <<>>
    /\ func_node.args[1] = "self"
    /\ \E c \in 1..Len(ClassesOfFile) :
          \E n \in 1..Len(ClassesOfFile[c].children) :
              ClassesOfFile[c].children[n] = func_node

\* the declared parameters without the implicit receiver
DeclaredParameters(func_node) ==
    IF HasReceiver(func_node) THEN Len(func_node.args) - 1 ELSE Len(func_node.args)

\* C17: parameter_count of a function is the number of its declared
\* parameters without the implicit receiver self, so a method with self and
\* 5 parameters has parameter_count 5 and no too-many-parameters issue.
C17_ParameterCountExcludesReceiver ==
    Analyzed =>
        \A k \in 1..Len(AnalyzedFunctions) :
            IsLastOfName(k) =>
                LET Holds(func_node, declared) ==
                        /\ ast_metrics[func_node.name.text].parameter_count = declared
                        /\ declared <= thresholds.max_parameters =>
                              IssuesAbout(func_node, "has too many parameters") = <<>>
                IN  Holds(AnalyzedFunctions[k], DeclaredParameters(AnalyzedFunctions[k]))

\* C20: function_metrics has exactly one entry per distinct name of an
\* analyzed function; for a name that several functions share (methods of
\* different classes, nested functions, redefinitions) the entry holds the
\* metrics of the function the analyzer wrote last.
C20_OneEntryPerNameLastWins ==
    Analyzed =>
        /\ DOMAIN ast_metrics =
               {AnalyzedFunctions[k].name.text : k \in 1..Len(AnalyzedFunctions)}
        /\ \A k \in 1..Len(AnalyzedFunctions) :
               IsLastOfName(k) =>
                   LET Holds(func_node, entry) ==
                           /\ entry.lines_of_code = NonBlankLines(func_node)
                           /\ entry.cyclomatic_complexity = PathCount(func_node)
                           /\ entry.parameter_count = Len(func_node.args)
                   IN  Holds(AnalyzedFunctions[k],
                             ast_metrics[AnalyzedFunctions[k].name.text])

\* two functions of one name with different metrics, the one analyzed last
\* standing before the other in the text (it is nested in a function)
C20_Witness ==
    /\ Analyzed
    /\ \E i, j \in 1..Len(AnalyzedFunctions) :
          /\ i < j /\ IsLastOfName(j)
          /\ AnalyzedFunctions[i].name = AnalyzedFunctions[j].name
          /\ AnalyzedFunctions[i].lineno > AnalyzedFunctions[j].lineno
          /\ PathCount(AnalyzedFunctions[i]) # PathCount(AnalyzedFunctions[j])
          /\ ast_metrics[AnalyzedFunctions[j].name.text].cyclomatic_complexity
                = PathCount(AnalyzedFunctions[j])

\* the positions in a tree: the child indices that lead from the node to each
\* node below it, <<>> for the node itself
RECURSIVE Positions(_)
Positions(node) ==
    {<<>>} \cup UNION {{<<k>> \o below : below \in Positions(node.children[k])} :
                          k \in 1..Len(node.children)}

RECURSIVE NodeAt(_, _)
NodeAt(node, position) ==
    IF position = <<>> THEN node
    ELSE NodeAt(node.children[Head(position)], Tail(position))

\* the positions below a function whose node is of one of `kinds`
PositionsOfKind(func_node, kinds) ==
    {position \in Positions(func_node) \ {<<>>} :
        NodeAt(func_node, position).kind \in kinds}

\* the nodes of `kinds` between a function and the node at a position, as
\* the lengths of their positions
Enclosing(func_node, position, kinds) ==
    {n \in 1..(Len(position) - 1) :
        NodeAt(func_node, SubSeq(position, 1, n)).kind \in kinds}

\* conditional, loop and exception-handler nodes
NestingKinds == {"If", "While", "For", "AsyncFor", "ExceptHandler"}

\* one unit per conditional, loop or handler node and per node of these
\* kinds around it, and one per operand after the first of an and/or chain
UnderstandingCost(func_node) ==
    Cardinality(UNION {{<<position, unit>> :
                           unit \in 0..Cardinality(Enclosing(func_node, position,
                                                             NestingKinds))} :
                          position \in PositionsOfKind(func_node, NestingKinds)})
    + Cardinality(ExtraOperands(func_node))

\* a conditional, loop or handler of the function lies inside another one
HasNestedBranch(func_node) ==
    \E position \in PositionsOfKind(func_node, NestingKinds) :
        Enclosing(func_node, position, NestingKinds) # {}

\* C21: cognitive_complexity of a function is the sum over its conditional,
\* loop and exception-handler nodes of 1 + the number of such nodes around
\* the node, plus (operand count - 1) for every and/or chain; it is 0 for a
\* function with none of these.
C21_CognitiveComplexityWeighsNesting ==
    Analyzed =>
        \A k \in 1..Len(AnalyzedFunctions) :
            IsLastOfName(k) =>
                LET Holds(func_node, cognitive) ==
                        /\ cognitive = UnderstandingCost(func_node)
                        /\ (NodesOfKind(func_node, NestingKinds \cup {"BoolOp"}) = {})
                              => cognitive = 0
                IN  Holds(AnalyzedFunctions[k],
                          ast_metrics[AnalyzedFunctions[k].name.text].cognitive_complexity)

\* a function with a conditional or loop inside another one or inside an
\* except clause: 1 for the outer node, 2 for the inner one
C21_Witness ==
    /\ Analyzed
    /\ \E k \in 1..Len(AnalyzedFunctions) :
          /\ IsLastOfName(k)
          /\ HasNestedBranch(AnalyzedFunctions[k])
          /\ NodesOfKind(AnalyzedFunctions[k], {"ExceptHandler"}) # {}
          /\ ast_metrics[AnalyzedFunctions[k].name.text].cognitive_complexity = 3

\* an If node written as an elif clause: it continues the if statement it
\* belongs to, at the same indentation
IsElifClause(node) ==
    node.kind = "If" /\ Strip(source.lines[node.lineno]) = "elif request:"

\* the statements of `kinds` in whose body the node at a position stands, the
\* node itself included, as the lengths of their positions; an elif clause
\* is not in the body of the if or elif clause before it
BlocksAround(func_node, position, kinds) ==
    {n \in 1..Len(position) :
        /\ NodeAt(func_node, SubSeq(position, 1, n)).kind \in kinds
        /\ n < Len(position) =>
               ~IsElifClause(NodeAt(func_node, SubSeq(position, 1, n + 1)))}

\* a conditional, loop or handler stands in the body of another one
HasBranchInBodyOfBranch(func_node) ==
    \E position \in PositionsOfKind(func_node, NestingKinds) :
        BlocksAround(func_node, position, NestingKinds) \ {Len(position)} # {}

BlockKinds == {"If", "While", "For", "AsyncFor", "With", "AsyncWith", "Try"}

\* the largest number of blocks standing one in the body of the other at a
\* node of the function
DeepestBlock(func_node) ==
    LET depths == {Cardinality(BlocksAround(func_node, position, BlockKinds)) :
                      position \in Positions(func_node)}
    IN  CHOOSE deepest \in depths : \A depth \in depths : depth <= deepest

\* C23: nesting_depth of a function is the largest number of conditional,
\* loop, try and with blocks standing one inside the other at any point of
\* the function; it is 0 for a function without such a block, and blocks
\* side by side do not add up.
C23_NestingDepthIsDeepestBlock ==
    Analyzed =>
        \A k \in 1..Len(AnalyzedFunctions) :
            IsLastOfName(k) =>
                LET Holds(func_node, nesting) ==
                        /\ nesting = DeepestBlock(func_node)
                        /\ NodesOfKind(func_node, BlockKinds) = {} => nesting = 0
                IN  Holds(AnalyzedFunctions[k],
                          ast_metrics[AnalyzedFunctions[k].name.text].nesting_depth)

(***************************************************************************)
(* Claims about the file metrics (SpecMetrics)                             *)
(***************************************************************************)
\* the lines of the file that read as one of `texts`
LinesReading(texts) == {k \in 1..Len(content) : content[k] \in texts}

BlankTexts == {"", "   "}

CommentOnlyTexts == {"# note", "    # note"}

\* C24: code_lines, comment_lines and blank_lines are each >= 0, count
\* pairwise disjoint sets of lines (the lines that are neither blank nor
\* comment-only, the comment-only lines, the empty or whitespace-only
\* lines) and add up to total_lines.
C24_FileMetricsPartitionLines ==
    file_metrics # <<>> =>
        LET Holds(metrics) ==
                /\ metrics.total_lines = Len(content)
                /\ metrics.blank_lines = Cardinality(LinesReading(BlankTexts))
                /\ metrics.comment_lines = Cardinality(LinesReading(CommentOnlyTexts))
                /\ metrics.code_lines =
                       Cardinality(LinesReading(MetricAlphabet
                                                   \ (BlankTexts \cup CommentOnlyTexts)))
                /\ metrics.code_lines >= 0
                /\ metrics.comment_lines >= 0
                /\ metrics.blank_lines >= 0
                /\ metrics.code_lines + metrics.comment_lines + metrics.blank_lines
                       = metrics.total_lines
        IN  Holds(file_metrics[1])

\* a file with a whitespace-only line, an indented comment, and a code line
\* that carries a comment
C24_Witness ==
    /\ file_metrics # <<>>
    /\ "   " \in {content[k] : k \in 1..Len(content)}
    /\ "    # note" \in {content[k] : k \in 1..Len(content)}
    /\ "x = 1  # note" \in {content[k] : k \in 1..Len(content)}
    /\ file_metrics[1].blank_lines = 2
    /\ file_metrics[1].comment_lines = 1
    /\ file_metrics[1].code_lines = 2

(***************************************************************************)
(* Claims about the StateManager (SpecState)                               *)
(***************************************************************************)
\* the last call was `op` and returned failure: None from switch_to_tag,
\* False from create_tag and remove_tag
Failed(op) ==
    /\ sm_history.last.op = op
    /\ IF op = "switch_to_tag" THEN Len(sm_history.last.ret) = 0
       ELSE sm_history.last.ret = FALSE

\* C28: current_tag is None or a key of project_states; switch_to_tag on an
\* unknown tag and create_tag on an existing tag return failure and leave
\* current_tag and project_states as they were; remove_tag of the current
\* tag sets current_tag to None.
C28_CurrentTagIsNoneOrKnown ==
    /\ data.current_tag = <<>> \/ data.current_tag[1] \in DOMAIN data.project_states
    /\ sm_history.last.op = "switch_to_tag" =>
          IF sm_history.last.tag \in DOMAIN sm_history.before.project_states
          THEN ~Failed("switch_to_tag") /\ data.current_tag = <<sm_history.last.tag>>
          ELSE /\ Failed("switch_to_tag")
               /\ data.current_tag = sm_history.before.current_tag
               /\ data.project_states = sm_history.before.project_states
    /\ sm_history.last.op = "create_tag" =>
          IF sm_history.last.tag \in DOMAIN sm_history.before.project_states
          THEN /\ Failed("create_tag")
               /\ data.current_tag = sm_history.before.current_tag
               /\ data.project_states = sm_history.before.project_states
          ELSE ~Failed("create_tag") /\ sm_history.last.tag \in DOMAIN data.project_states
    /\ (sm_history.last.op = "remove_tag"
        /\ sm_history.before.current_tag = <<sm_history.last.tag>>) =>
          /\ data.current_tag = <<>>
          /\ sm_history.last.tag \notin DOMAIN data.project_states

\* the current tag, which holds entries, has just been removed while another
\* tag stays
C28_Witness ==
    /\ sm_history.last.op = "remove_tag"
    /\ ~Failed("remove_tag")
    /\ sm_history.before.current_tag = <<sm_history.last.tag>>
    /\ sm_history.before.project_states[sm_history.last.tag].context_entries # <<>>
    /\ data.current_tag = <<>>
    /\ DOMAIN data.project_states # {}

\* the last `max` elements of a sequence
MostRecent(seq, max) ==
    SubSeq(seq, IF Len(seq) > max THEN Len(seq) - max + 1 ELSE 1, Len(seq))

\* the entries added under a tag since the project of that tag was created
ArrivedFor(project) ==
    SelectSeq(sm_history.arrived,
              LAMBDA entry : /\ entry.tag = <<project.tag>>
                             /\ entry.timestamp > project.created_at)

\* C29: recent_context holds at most 10 entries, every project's
\* context_entries at most 10 and command_history at most 50 commands, and
\* each list is the most recent of its entries in the order of their arrival.
C29_ListsHoldTheMostRecent ==
    /\ Len(data.recent_context) <= 10
    /\ data.recent_context = MostRecent(sm_history.arrived, 10)
    /\ Len(data.command_history) <= 50
    /\ data.command_history =
          MostRecent([k \in 1..Len(sm_history.arrived) |-> sm_history.arrived[k].command],
                     50)
    /\ \A tag \in DOMAIN data.project_states :
          /\ Len(data.project_states[tag].context_entries) <= 10
          /\ data.project_states[tag].context_entries
                = MostRecent(ArrivedFor(data.project_states[tag]), 10)

\* 52 entries have arrived, more than ten of them under the current tag:
\* the two oldest commands have left the history
C29_Witness ==
    /\ Len(sm_history.arrived) = 52
    /\ Len(data.command_history) = 50
    /\ data.command_history[1] = 3
    /\ Len(data.recent_context) = 10
    /\ data.recent_context[1].command = 43
    /\ data.current_tag # <<>>
    /\ Len(data.project_states[data.current_tag[1]].context_entries) = 10
    /\ data.project_states[data.current_tag[1]].context_entries[10].command = 52

(***************************************************************************)
(* Claims about the maintainability index (SpecIndex)                      *)
(***************************************************************************)
\* C18: the maintainability index is within [0, 100] for every loc >= 0 and
\* complexity >= 1, and is exactly 100.0 when loc is 0.  The index is held
\* in hundredths.
C18_IndexWithinRange ==
    index # <<>> =>
        /\ index[1] >= 0 /\ index[1] <= 100 * 100
        /\ index_args.loc = 0 => index[1] = 100 * 100

\* the index of a function so long and complex that the formula is negative
\* before max(0, ...) is taken
C18_Witness ==
    /\ index = <<0>>
    /\ index_args.loc = MaxLoc
    /\ _calculate_maintainability_index_unclamped(
            index_args.loc, index_args.complexity, index_args.cognitive) < 0

(***************************************************************************)
(* Claims about the directory review (Spec)                                *)
(***************************************************************************)
DirectoryReviewed ==
    pc = "done" /\ tool = "review_code" /\ report.kind = "directory_review"

\* critical_issues * 3 + major_issues * 2 + total_issues of a file summary
AttentionScore(summary) ==
    3 * summary.critical_issues + 2 * summary.major_issues + summary.total_issues

\* the place of a file in the order the files were analyzed
AnalysisOrder(summary) ==
    CHOOSE k \in 1..Len(file_summaries) : file_summaries[k].path = summary.path

\* how often an issue type occurs among all issues
Occurrences(type) ==
    Cardinality({k \in 1..Len(all_issues) : all_issues[k].type = type})

\* C19: in the directory review the files needing attention are listed by
\* critical_issues * 3 + major_issues * 2 + total_issues in descending order,
\* files of equal score in the order of their analysis; every listed file
\* has a score no lower than any file that is not listed; the issue types
\* are listed by their number of occurrences in descending order.
C19_RankedByScoreAndCount ==
    DirectoryReviewed =>
        LET shown == report.files_needing_attention
            types == report.common_issues
        IN  /\ \A i, j \in 1..Len(shown) :
                  i < j =>
                      \/ AttentionScore(shown[i].item) > AttentionScore(shown[j].item)
                      \/ /\ AttentionScore(shown[i].item) = AttentionScore(shown[j].item)
                         /\ AnalysisOrder(shown[i].item) < AnalysisOrder(shown[j].item)
            /\ \A i \in 1..Len(shown) :
                  \A k \in 1..Len(file_summaries) :
                      (\A j \in 1..Len(shown) : shown[j].item # file_summaries[k])
                          => AttentionScore(shown[i].item)
                                >= AttentionScore(file_summaries[k])
            /\ \A i, j \in 1..Len(types) :
                  i < j => Occurrences(types[i].item) >= Occurrences(types[j].item)
            /\ \A i \in 1..Len(types) : types[i].key = Occurrences(types[i].item)

\* a review of more than ten files with issues, of different scores, in which
\* a file analyzed later is listed before a file analyzed earlier and a file
\* that is not listed has more issues than a listed one
C19_Witness ==
    /\ DirectoryReviewed
    /\ Len(file_summaries) > Len(report.files_needing_attention)
    /\ Len(report.common_issues) >= 3
    /\ \E i, j \in 1..Len(report.files_needing_attention) :
          /\ i < j
          /\ AnalysisOrder(report.files_needing_attention[i].item)
                > AnalysisOrder(report.files_needing_attention[j].item)
    /\ \E k \in 1..Len(file_summaries) :
          /\ \A j \in 1..Len(report.files_needing_attention) :
                report.files_needing_attention[j].item # file_summaries[k]
          /\ \E j \in 1..Len(report.files_needing_attention) :
                report.files_needing_attention[j].item.total_issues
                    < file_summaries[k].total_issues

====
